---- MODULE Spec2Model ----
(***************************************************************************)
(* Binary decoding pipeline of the Vanguard asset extractor:               *)
(*   - ue2/reader.py      cursor, compact index, FString                   *)
(*   - ue2/package.py     package container (header, name/import/export)   *)
(*   - ue2/properties.py  property list decoder                            *)
(*   - scripts/lib/staticmesh_construct.py  StaticMesh geometry decoder    *)
(*                                                                         *)
(* Buffers are sequences of bytes (0..255), 1-based in TLA+, 0-based in    *)
(* the Python source: data[i] of the source is data[i + 1] here.           *)
(*                                                                         *)
(* Python integers are unbounded.  A compact index has up to 35 magnitude  *)
(* bits, which does not fit the model checker's integers, so a decoded     *)
(* compact index is kept as sign + two limbs:                              *)
(*     value = (neg ? -1 : 1) * (hi * 2^27 + lo),  lo < 2^27, hi < 256     *)
(***************************************************************************)
EXTENDS Integers, Sequences, FiniteSets, TLC

VARIABLES
    data,       \* the byte buffer being decoded (file or export payload)
    pos,        \* BinaryReader.pos
    op,         \* the operation that produced ret
    start,      \* the offset (or export index) that operation was given
    ret,        \* its result
    pkg_pc,     \* UE2Package.__init__: where _parse_header stands
    hdr,        \* UE2Package: the header fields
    names,      \* UE2Package.names
    imports,    \* UE2Package.imports
    exports,    \* UE2Package.exports
    high,       \* history: the furthest offset a read of the constructor needed
    prop_pc,    \* parse_properties: in its loop, or done
    stop,       \* parse_properties: why the loop ended
    properties, \* parse_properties: properties
    prop_start, \* parse_properties: prop_start (-1 before the first turn)
    lookups,    \* history: the integers parse_properties has indexed names with
    consecutive_nones, \* parse_properties: consecutive_nones
    current_list,      \* parse_properties: current_list
    trace,      \* history: "None" per terminator decoded, "prop" per property emitted
    mesh_pc,    \* parse_staticmesh: the step it is at, or how it ended
    result,     \* parse_staticmesh: result
    loc,        \* parse_staticmesh: its local variables
    lods,       \* parse_staticmesh: lods
    pipe_pc,    \* parse_staticmesh_file: where it stands
    static_mesh_exports, \* parse_staticmesh_file: static_mesh_exports
    exp_i,      \* parse_staticmesh_file: the place of exp in static_mesh_exports
    meshes,     \* parse_staticmesh_file: meshes
    ended,      \* history: per export processed, how parse_staticmesh ended
    pkg_data,   \* UE2Package.data of the container whose exports are decoded
    threads,    \* two decodings of exports of one container, taking turns
    chunk_pc,   \* process_chunk_file, then parse_chunk: where they stand
    db_exports, \* the rows of the table "exports" of the database
    row_i,      \* parse_chunk: the place of the row in cursor.fetchall()
    attached,   \* history: per row parse_chunk went through, what it decoded
    lod_model   \* FVanguardLODModel.read: its local variables and where it stands

codecVars == <<data, pos, op, start, ret>>
pkgVars == <<pkg_pc, hdr, names, imports, exports, high>>
propVars == <<prop_pc, stop, properties, prop_start, lookups, consecutive_nones,
              current_list, trace>>
pipeVars == <<pipe_pc, static_mesh_exports, exp_i, meshes, ended, pkg_data, threads,
              chunk_pc, db_exports, row_i, attached, lod_model>>
meshVars == <<mesh_pc, result, loc, lods, pipeVars>>
vars == <<data, pos, op, start, ret, pkg_pc, hdr, names, imports, exports, high,
          prop_pc, stop, properties, prop_start, lookups, consecutive_nones, current_list,
          trace,
          mesh_pc, result, loc, lods,
          pipe_pc, static_mesh_exports, exp_i, meshes, ended, pkg_data, threads,
          chunk_pc, db_exports, row_i, attached, lod_model>>

----------------------------------------------------------------------------
(* Bounds of the model                                                     *)

\* longest buffer of arbitrary bytes handed to the codec
MaxCodecLen == 5
\* longest payload that follows the length prefix of a generated FString
MaxStrPayload == 4
\* most export entries of a generated package
MaxExports == 2

----------------------------------------------------------------------------
(* Python helpers                                                          *)

Min(a, b) == IF a < b THEN a ELSE b
Max(a, b) == IF a > b THEN a ELSE b

\* F(x) with x evaluated once and named (a local variable of the source)
Bind(x, F(_)) == CHOOSE y \in {F(v) : v \in {x}} : TRUE

\* sequences over S of length 0..n
SeqsUpTo(S, n) == UNION {[1..k -> S] : k \in 0..n}

\* Python slice bounds: a negative index counts from the end, then clamp
PyIndex(len, i) == IF i < 0 THEN Max(len + i, 0) ELSE Min(i, len)

\* data[a:b]
PySlice(d, a, b) ==
    LET lo == PyIndex(Len(d), a)
        hi == PyIndex(Len(d), b)
    IN  IF lo >= hi THEN <<>> ELSE SubSeq(d, lo + 1, hi)

\* data[a:]
PySliceFrom(d, a) == PySlice(d, a, Len(d))

\* a Python int as sign and limbs (see the module comment)
PyInt(neg, hi, lo) == [neg |-> neg /\ (hi # 0 \/ lo # 0), hi |-> hi, lo |-> lo]
PyZero == PyInt(FALSE, 0, 0)
IsNegative(v) == v.neg
IsZero(v) == v.hi = 0 /\ v.lo = 0
IsPositive(v) == ~v.neg /\ ~IsZero(v)
\* the int as a model integer; only meaningful below 2^27
Small(v) == v.hi = 0
ToInt(v) == IF v.neg THEN -v.lo ELSE v.lo
FromInt(n) == IF n < 0 THEN PyInt(TRUE, 0, -n) ELSE PyInt(FALSE, 0, n)
Negate(v) == PyInt(~v.neg, v.hi, v.lo)

----------------------------------------------------------------------------
(* ue2/reader.py : BinaryReader                                            *)

\* read_bytes: the slice may be short, the cursor advances by count anyway
read_bytes(d, p, count) ==
    [bytes |-> PySlice(d, p, p + count), pos |-> p + count]

\* a bug that reads a missing byte as zero instead of failing
read_uint8_lenient(d, p) ==
    LET r == read_bytes(d, p, 1)
    IN  [ok  |-> TRUE,
         val |-> IF Len(r.bytes) = 1 THEN r.bytes[1] ELSE 0,
         pos |-> r.pos]

\* struct.unpack("<B", ...) raises struct.error unless it gets exactly 1 byte
read_uint8(d, p) ==
    LET r == read_bytes(d, p, 1)
    IN  [ok  |-> Len(r.bytes) = 1,
         val |-> IF Len(r.bytes) = 1 THEN r.bytes[1] ELSE 0,
         pos |-> r.pos]

\* b & 0x80, b & 0x40 as truth values; b & 0x3F, b & 0x7F
Bit7(b) == (b \div 128) % 2 = 1
Bit6(b) == (b \div 64) % 2 = 1
Low6(b) == b % 64
Low7(b) == b % 128

\* byte 0 carries the continuation flag in bit 6, bytes 1..3 in bit 7
Continues0(b0) == Bit6(b0)
Continues(b) == Bit7(b)

\* the bits byte 4 adds at bit 27: a bug that reserves two flag bits there
Byte4Bits_masked(b4) == b4 % 64
\* value |= b4 << 27 : all eight bits of the terminal byte
Byte4Bits(b4) == b4

\* a bug that shifts byte 1 by seven bits
Shift6_by7(b) == Low7(b) * 128
\* bytes 1, 2 and 3 shifted to bits 6, 13 and 20 (disjoint from what is set)
Shift6(b) == Low7(b) * 64
Shift13(b) == Low7(b) * 8192
Shift20(b) == Low7(b) * 1048576

CIErr(p) == [ok |-> FALSE, val |-> PyZero, pos |-> p]
CIOk(neg, hi, lo, p) == [ok |-> TRUE, val |-> PyInt(neg, hi, lo), pos |-> p]

\* BinaryReader.read_compact_index: result and the cursor it leaves behind
\* (a failed read_uint8 has already moved the cursor past the missing byte)
read_compact_index(d, p) ==
    Bind(p, LAMBDA q :
        LET r0 == read_uint8(d, q)
            negative == Bit7(r0.val)
            v0 == Low6(r0.val)
            r1 == read_uint8(d, q + 1)
            v1 == v0 + Shift6(r1.val)
            r2 == read_uint8(d, q + 2)
            v2 == v1 + Shift13(r2.val)
            r3 == read_uint8(d, q + 3)
            v3 == v2 + Shift20(r3.val)
            r4 == read_uint8(d, q + 4)
        IN  IF ~r0.ok THEN CIErr(r0.pos)
            ELSE IF ~Continues0(r0.val) THEN CIOk(negative, 0, v0, r0.pos)
            ELSE IF ~r1.ok THEN CIErr(r1.pos)
            ELSE IF ~Continues(r1.val) THEN CIOk(negative, 0, v1, r1.pos)
            ELSE IF ~r2.ok THEN CIErr(r2.pos)
            ELSE IF ~Continues(r2.val) THEN CIOk(negative, 0, v2, r2.pos)
            ELSE IF ~r3.ok THEN CIErr(r3.pos)
            ELSE IF ~Continues(r3.val) THEN CIOk(negative, 0, v3, r3.pos)
            ELSE IF ~r4.ok THEN CIErr(r4.pos)
            ELSE CIOk(negative, Byte4Bits(r4.val), v3, r4.pos))

\* read_compact_index_at(data, offset): IndexError instead of a short read;
\* on error the offset reported is the one the function was called with
read_compact_index_at(d, offset) ==
    Bind(offset, LAMBDA q :
        LET n == Len(d)
            b0 == d[q + 1]
            negative == Bit7(b0)
            v0 == Low6(b0)
            b1 == d[q + 2]
            v1 == v0 + Shift6(b1)
            b2 == d[q + 3]
            v2 == v1 + Shift13(b2)
            b3 == d[q + 4]
            v3 == v2 + Shift20(b3)
            b4 == d[q + 5]
        IN  IF q >= n THEN CIErr(q)
            ELSE IF ~Continues0(b0) THEN CIOk(negative, 0, v0, q + 1)
            ELSE IF q + 1 >= n THEN CIErr(q)
            ELSE IF ~Continues(b1) THEN CIOk(negative, 0, v1, q + 2)
            ELSE IF q + 2 >= n THEN CIErr(q)
            ELSE IF ~Continues(b2) THEN CIOk(negative, 0, v2, q + 3)
            ELSE IF q + 3 >= n THEN CIErr(q)
            ELSE IF ~Continues(b3) THEN CIOk(negative, 0, v3, q + 4)
            ELSE IF q + 4 >= n THEN CIErr(q)
            ELSE CIOk(negative, Byte4Bits(b4), v3, q + 5))

\* scripts/extractors/extract_chunk_data.py : read_compact_index(data, pos);
\* data[pos] raises IndexError past the end
extract_chunk_data_read_compact_index(d, p) ==
    Bind(p, LAMBDA q :
        LET n == Len(d)
            b0 == d[q + 1]
            negative == Bit7(b0)
            v0 == Low6(b0)
            b1 == d[q + 2]
            v1 == v0 + Shift6(b1)
            b2 == d[q + 3]
            v2 == v1 + Shift13(b2)
            b3 == d[q + 4]
            v3 == v2 + Shift20(b3)
            b4 == d[q + 5]
        IN  IF q >= n THEN CIErr(q)
            ELSE IF ~Continues0(b0) THEN CIOk(negative, 0, v0, q + 1)
            ELSE IF q + 1 >= n THEN CIErr(q)
            ELSE IF ~Continues(b1) THEN CIOk(negative, 0, v1, q + 2)
            ELSE IF q + 2 >= n THEN CIErr(q)
            ELSE IF ~Continues(b2) THEN CIOk(negative, 0, v2, q + 3)
            ELSE IF q + 3 >= n THEN CIErr(q)
            ELSE IF ~Continues(b3) THEN CIOk(negative, 0, v3, q + 4)
            ELSE IF q + 4 >= n THEN CIErr(q)
            ELSE CIOk(negative, Byte4Bits(b4), v3, q + 5))

\* lib/staticmesh_construct.py : the compact index find_none_terminator
\* decodes inline: no sign, "value |= (b4 & 0x3F) << 27"; data[pos] raises
\* IndexError past the end
lib_inline_compact_index(d, p) ==
    Bind(p, LAMBDA q :
        LET n == Len(d)
            b0 == d[q + 1]
            v0 == Low6(b0)
            b1 == d[q + 2]
            v1 == v0 + Shift6(b1)
            b2 == d[q + 3]
            v2 == v1 + Shift13(b2)
            b3 == d[q + 4]
            v3 == v2 + Shift20(b3)
            b4 == d[q + 5]
        IN  IF q >= n THEN CIErr(q)
            ELSE IF ~Continues0(b0) THEN CIOk(FALSE, 0, v0, q + 1)
            ELSE IF q + 1 >= n THEN CIErr(q)
            ELSE IF ~Continues(b1) THEN CIOk(FALSE, 0, v1, q + 2)
            ELSE IF q + 2 >= n THEN CIErr(q)
            ELSE IF ~Continues(b2) THEN CIOk(FALSE, 0, v2, q + 3)
            ELSE IF q + 3 >= n THEN CIErr(q)
            ELSE IF ~Continues(b3) THEN CIOk(FALSE, 0, v3, q + 4)
            ELSE IF q + 4 >= n THEN CIErr(q)
            ELSE CIOk(FALSE, Low6(b4), v3, q + 5))

\* .decode("latin-1"): byte b is the character U+00b
decode_latin1(bs) == [i \in 1..Len(bs) |-> bs[i]]

ReplacementChar == 65533
IsHighSurrogate(u) == 55296 <= u /\ u <= 56319
IsLowSurrogate(u) == 56320 <= u /\ u <= 57343

\* .decode("utf-16-le", errors="replace"): code units of two bytes; an odd
\* trailing byte, an unpaired surrogate or a cut surrogate pair gives U+FFFD
RECURSIVE decode_utf16le(_)
decode_utf16le(bs) ==
    LET n == Len(bs)
        u == bs[1] + 256 * bs[2]
        u2 == bs[3] + 256 * bs[4]
        rest(k) == SubSeq(bs, k, n)
    IN  IF n = 0 THEN <<>>
        ELSE IF n = 1 THEN <<ReplacementChar>>
        ELSE IF IsHighSurrogate(u) THEN
            IF n < 4 THEN <<ReplacementChar>>
            ELSE IF IsLowSurrogate(u2)
                 THEN <<65536 + (u - 55296) * 1024 + (u2 - 56320)>>
                      \o decode_utf16le(rest(5))
                 ELSE <<ReplacementChar>> \o decode_utf16le(rest(3))
        ELSE IF IsLowSurrogate(u) THEN <<ReplacementChar>> \o decode_utf16le(rest(3))
        ELSE <<u>> \o decode_utf16le(rest(3))

\* a bug that drops one terminator only
rstrip_nul_once(s) ==
    IF Len(s) > 0 /\ s[Len(s)] = 0 THEN SubSeq(s, 1, Len(s) - 1) ELSE s

\* .rstrip("\x00"): every trailing NUL goes
RECURSIVE rstrip_nul(_)
rstrip_nul(s) ==
    IF Len(s) > 0 /\ s[Len(s)] = 0 THEN rstrip_nul(SubSeq(s, 1, Len(s) - 1)) ELSE s

FSErr(p) == [ok |-> FALSE, str |-> <<>>, len |-> PyZero, pos |-> p]
FSOk(s, l, p) == [ok |-> TRUE, str |-> s, len |-> l, pos |-> p]

\* BinaryReader.read_fstring (lengths below 2^27, see FStringReadable)
read_fstring(d, p) ==
    Bind(read_compact_index(d, p), LAMBDA l :
        Bind(ToInt(l.val), LAMBDA length :
            IF ~l.ok THEN FSErr(l.pos)
            ELSE IF length < 0 THEN
                Bind(read_bytes(d, l.pos, (-length) * 2), LAMBDA u :
                    FSOk(rstrip_nul(decode_utf16le(u.bytes)), l.val, u.pos))
            ELSE IF length > 0 THEN
                Bind(read_bytes(d, l.pos, length), LAMBDA a :
                    FSOk(rstrip_nul(decode_latin1(a.bytes)), l.val, a.pos))
            ELSE FSOk(<<>>, l.val, l.pos)))

\* read_fstring_at(data, offset)
read_fstring_at(d, offset) ==
    Bind(read_compact_index_at(d, offset), LAMBDA l :
        Bind(ToInt(l.val), LAMBDA length :
            IF ~l.ok THEN FSErr(l.pos)
            ELSE IF length < 0 THEN
                Bind(l.pos + (-length) * 2, LAMBDA end :
                    FSOk(rstrip_nul(decode_utf16le(PySlice(d, l.pos, end))), l.val, end))
            ELSE IF length > 0 THEN
                Bind(l.pos + length, LAMBDA end :
                    FSOk(rstrip_nul(decode_latin1(PySlice(d, l.pos, end))), l.val, end))
            ELSE FSOk(<<>>, l.val, l.pos)))

----------------------------------------------------------------------------
(* The compact-index encoding (most compact form): the inverse the         *)
(* round-trip property is stated against                                   *)

MaxLo == 134217727

ContFlag0(more) == IF more THEN 64 ELSE 0
ContFlag(more) == IF more THEN 128 ELSE 0
SignFlag(v) == IF v.neg THEN 128 ELSE 0

Encode(v) ==
    LET lo == v.lo
        hi == v.hi
        more1 == hi > 0 \/ lo >= 64
        more2 == hi > 0 \/ lo >= 8192
        more3 == hi > 0 \/ lo >= 1048576
        more4 == hi > 0
        b0 == SignFlag(v) + ContFlag0(more1) + (lo % 64)
        b1 == ContFlag(more2) + ((lo \div 64) % 128)
        b2 == ContFlag(more3) + ((lo \div 8192) % 128)
        b3 == ContFlag(more4) + ((lo \div 1048576) % 128)
    IN  <<b0>> \o (IF more1 THEN <<b1>> ELSE <<>>)
               \o (IF more2 THEN <<b2>> ELSE <<>>)
               \o (IF more3 THEN <<b3>> ELSE <<>>)
               \o (IF more4 THEN <<hi>> ELSE <<>>)

----------------------------------------------------------------------------
(* Codec state machine: a BinaryReader over one buffer                     *)

\* bytes of the arbitrary buffers: zero, continuation only (0x41),
\* sign + continuation (0xC3), all bits set
CodecBytes == {0, 65, 195, 255}

\* FString buffers: one length byte (0, 1, 2, 3, -1, -2) and a payload of
\* NUL, 'A' and 0xD8 (the high byte of a surrogate code unit)
FStringLenBytes == {0, 1, 2, 3, 129, 130}
FStringPayloadBytes == {0, 65, 216}

\* values whose encodings are decoded: every encoded length, both signs,
\* the limits of each byte, and +-2^34
RoundTripLo == {0, 5, 63, 64, 100, 8191, 8192, 1048575, 1048576, MaxLo}
RoundTripValues ==
    {PyInt(neg, hi, lo) : neg \in BOOLEAN, hi \in {0, 1, 64, 127}, lo \in RoundTripLo}
    \cup {PyInt(neg, 128, 0) : neg \in BOOLEAN}

CodecBuffers ==
    SeqsUpTo(CodecBytes, MaxCodecLen)
    \cup {<<l>> \o s : l \in FStringLenBytes, s \in SeqsUpTo(FStringPayloadBytes, MaxStrPayload)}
    \cup {Encode(v) : v \in RoundTripValues}

NoRet == [ok |-> TRUE, val |-> PyZero, str |-> <<>>, end |-> 0]
NoHeader == [name_count |-> 0, name_offset |-> 0, export_count |-> 0,
             export_offset |-> 0, import_count |-> 0, import_offset |-> 0]

\* the result dict of parse_staticmesh as it is created (lines 252-261);
\* parse_status and error_message are keys it does not have yet ("unset");
\* coverage_pct is kept as the fraction num / den
NewResult(total) ==
    [bytes_total |-> total, bytes_parsed |-> 0, bytes_unknown |-> 0,
     coverage_pct |-> [num |-> 0, den |-> 1],
     uses_heuristics |-> FALSE, uses_skips |-> FALSE,
     parse_status |-> "unset", error_message |-> "unset",
     properties_end |-> -1, internal_version |-> 0, section_count |-> 0,
     raw_triangles_skip_pos |-> 0, raw_triangles_payload_size |-> -1,
     lod_version |-> 0, lod_count |-> 0, unknown_regions |-> <<>>]

\* the locals of parse_staticmesh before it sets them
NoLocals ==
    [prop_end |-> -1, core_start |-> -1, v_off |-> 0, sec_count |-> 0,
     section_size |-> 14, padding_pos |-> -1, skip_pos |-> 0, core_bytes |-> 0,
     relative_skip |-> 0, current_pos |-> 0]

\* FVanguardLODModel.read is not running
NoLodModel ==
    [pc |-> "idle", version |-> 0, v_count |-> 0, vertices |-> 0, i |-> 0,
     arrays |-> <<>>, potential_indices |-> <<>>, indices |-> <<>>]

\* neither process_chunk_file nor parse_chunk has run
NoChunk ==
    /\ chunk_pc = "idle"
    /\ db_exports = <<>>
    /\ row_i = 0
    /\ attached = <<>>
    /\ lod_model = NoLodModel

\* parse_staticmesh_file is not running
NoPipe ==
    /\ pipe_pc = "idle"
    /\ static_mesh_exports = <<>>
    /\ exp_i = 0
    /\ meshes = <<>>
    /\ ended = <<>>
    /\ pkg_data = <<>>
    /\ threads = <<>>
    /\ NoChunk

\* parse_staticmesh is not running
NoMesh ==
    /\ mesh_pc = "idle"
    /\ result = NewResult(0)
    /\ loc = NoLocals
    /\ lods = <<>>
    /\ NoPipe

\* parse_properties is not running
NoProps ==
    /\ prop_pc = "idle"
    /\ stop = ""
    /\ properties = <<>>
    /\ prop_start = -1
    /\ lookups = {}
    /\ consecutive_nones = 0
    /\ current_list = 0
    /\ trace = <<>>

NoPackage ==
    /\ pkg_pc = "none"
    /\ hdr = NoHeader
    /\ names = <<>>
    /\ imports = <<>>
    /\ exports = <<>>
    /\ high = 0

Init ==
    /\ data \in CodecBuffers
    /\ pos = 0
    /\ op = "init"
    /\ start = 0
    /\ ret = NoRet
    /\ NoPackage
    /\ NoProps
    /\ NoMesh

\* a read at or before the end of the buffer; one past the end fails
Readable == pos <= Len(data)

\* the FString operations are applied where the length prefix is below 2^27
FStringReadable(offset) ==
    LET l == read_compact_index_at(data, offset) IN l.ok => Small(l.val)

\* r.read_compact_index()
ReadCompactIndex ==
    /\ Readable
    /\ LET r == read_compact_index(data, pos)
       IN  /\ pos' = r.pos
           /\ ret' = [ok |-> r.ok, val |-> r.val, str |-> <<>>, end |-> r.pos]
    /\ op' = "read_compact_index"
    /\ start' = pos
    /\ UNCHANGED data
    /\ UNCHANGED pkgVars
    /\ UNCHANGED propVars
    /\ UNCHANGED meshVars

\* read_compact_index_at(data, r.tell()): the reader's cursor stays
ReadCompactIndexAt ==
    /\ Readable
    /\ LET r == read_compact_index_at(data, pos)
       IN  ret' = [ok |-> r.ok, val |-> r.val, str |-> <<>>, end |-> r.pos]
    /\ start' = pos
    /\ op' = "read_compact_index_at"
    /\ UNCHANGED <<data, pos>>
    /\ UNCHANGED pkgVars
    /\ UNCHANGED propVars
    /\ UNCHANGED meshVars

\* the chunk extractor's read_compact_index(data, r.tell())
ChunkReadCompactIndex ==
    /\ Readable
    /\ LET r == extract_chunk_data_read_compact_index(data, pos)
       IN  ret' = [ok |-> r.ok, val |-> r.val, str |-> <<>>, end |-> r.pos]
    /\ start' = pos
    /\ op' = "chunk_read_compact_index"
    /\ UNCHANGED <<data, pos>>
    /\ UNCHANGED pkgVars
    /\ UNCHANGED propVars
    /\ UNCHANGED meshVars

\* the decoder inlined in lib/staticmesh_construct.find_none_terminator, at
\* r.tell(); "while pos < len(data)" has let it in
InlineCompactIndex ==
    /\ Readable
    /\ pos < Len(data)
    /\ LET r == lib_inline_compact_index(data, pos)
       IN  ret' = [ok |-> r.ok, val |-> r.val, str |-> <<>>, end |-> r.pos]
    /\ start' = pos
    /\ op' = "inline_compact_index"
    /\ UNCHANGED <<data, pos>>
    /\ UNCHANGED pkgVars
    /\ UNCHANGED propVars
    /\ UNCHANGED meshVars

\* r.read_fstring()
ReadFString ==
    /\ Readable
    /\ FStringReadable(pos)
    /\ LET r == read_fstring(data, pos)
       IN  /\ pos' = r.pos
           /\ ret' = [ok |-> r.ok, val |-> r.len, str |-> r.str, end |-> r.pos]
    /\ op' = "read_fstring"
    /\ start' = pos
    /\ UNCHANGED data
    /\ UNCHANGED pkgVars
    /\ UNCHANGED propVars
    /\ UNCHANGED meshVars

\* read_fstring_at(data, r.tell()): the reader's cursor stays
ReadFStringAt ==
    /\ Readable
    /\ FStringReadable(pos)
    /\ LET r == read_fstring_at(data, pos)
       IN  ret' = [ok |-> r.ok, val |-> r.len, str |-> r.str, end |-> r.pos]
    /\ start' = pos
    /\ op' = "read_fstring_at"
    /\ UNCHANGED <<data, pos>>
    /\ UNCHANGED pkgVars
    /\ UNCHANGED propVars
    /\ UNCHANGED meshVars

Next ==
    \/ ReadCompactIndex
    \/ ReadCompactIndexAt
    \/ ChunkReadCompactIndex
    \/ InlineCompactIndex
    \/ ReadFString
    \/ ReadFStringAt

Spec == Init /\ [][Next]_vars

----------------------------------------------------------------------------
(* Properties of the codec                                                 *)

CompactIndexOps == {"read_compact_index", "read_compact_index_at", "chunk_read_compact_index"}
FStringOps == {"read_fstring", "read_fstring_at"}

\* the byte i places after the start of the last operation (0 past the end)
ByteFromStart(i) == IF start + i < Len(data) THEN data[start + i + 1] ELSE 0

\* how many bytes the flags of the bytes at start announce
AnnouncedLen ==
    IF ~Bit6(ByteFromStart(0)) THEN 1
    ELSE IF ~Bit7(ByteFromStart(1)) THEN 2
    ELSE IF ~Bit7(ByteFromStart(2)) THEN 3
    ELSE IF ~Bit7(ByteFromStart(3)) THEN 4
    ELSE 5

\* magnitude bits 0..26 from the first n bytes
AnnouncedLo(n) ==
    (ByteFromStart(0) % 64)
    + (IF n >= 2 THEN (ByteFromStart(1) % 128) * 64 ELSE 0)
    + (IF n >= 3 THEN (ByteFromStart(2) % 128) * 8192 ELSE 0)
    + (IF n >= 4 THEN (ByteFromStart(3) % 128) * 1048576 ELSE 0)

C3_RoundTrip ==
    /\ \A v \in RoundTripValues :
          (op = "read_compact_index" /\ start = 0 /\ data = Encode(v)) =>
              (ret.ok /\ ret.val = v /\ pos = Len(data))
    /\ (op = "read_compact_index" /\ start = 0 /\ data = <<5>>) => ret.val = FromInt(5)
    /\ (op = "read_compact_index" /\ start = 0 /\ data = <<133>>) => ret.val = FromInt(-5)
    /\ (op = "read_compact_index" /\ start = 0 /\ data = <<100, 1>>) => ret.val = FromInt(100)
    /\ Encode(FromInt(5)) = <<5>>
    /\ Encode(FromInt(-5)) = <<133>>
    /\ Encode(FromInt(100)) = <<100, 1>>

\* the encoding of 100 has been decoded to 100
C3_Witness ==
    /\ op = "read_compact_index"
    /\ start = 0
    /\ data = <<100, 1>>
    /\ ret.val = FromInt(100)

\* the number announced at start is cut by the end of the buffer
CutByEnd ==
    \E k \in 0..4 :
        /\ start + k >= Len(data)
        /\ k >= 1 => Bit6(ByteFromStart(0))
        /\ \A j \in 1..(k - 1) : Bit7(ByteFromStart(j))

\* C4: a continuation signalled past the end of the buffer (or no byte at
\* the cursor) makes the read fail; no value is built from missing bytes
C4_ContinuationPastEnd ==
    (op \in CompactIndexOps) =>
        /\ CutByEnd => ~ret.ok
        /\ ret.ok => ret.end <= Len(data)

\* a read failed on a continuation flag set on the last available byte
C4_Witness ==
    /\ op = "read_compact_index"
    /\ ~ret.ok
    /\ start < Len(data)
    /\ CutByEnd

\* where the payload of the FString read last begins, and its byte length
FStringPayloadStart == start + AnnouncedLen
FStringPayloadLen ==
    IF ret.val.neg THEN 2 * ret.val.lo ELSE ret.val.lo
FStringPayload ==
    SubSeq(data, FStringPayloadStart + 1, FStringPayloadStart + FStringPayloadLen)

\* the stored characters: UTF-16LE code units or Latin-1 bytes
CodeUnits(bs) == [i \in 1..(Len(bs) \div 2) |-> bs[2 * i - 1] + 256 * bs[2 * i]]
StoredChars == IF ret.val.neg THEN CodeUnits(FStringPayload) ELSE FStringPayload

\* the string is wholly inside the buffer and holds no surrogate code unit
FStringWellFormed ==
    /\ FStringPayloadStart + FStringPayloadLen <= Len(data)
    /\ \A i \in 1..Len(StoredChars) : StoredChars[i] < 55296 \/ StoredChars[i] > 57343

\* s without its last character when that is a NUL
WithoutTerminator(s) ==
    IF Len(s) > 0 /\ s[Len(s)] = 0 THEN SubSeq(s, 1, Len(s) - 1) ELSE s

\* r is s without any of its trailing NULs
IsWithoutTrailingNuls(r, s) ==
    /\ Len(r) <= Len(s)
    /\ r = SubSeq(s, 1, Len(r))
    /\ \A i \in (Len(r) + 1)..Len(s) : s[i] = 0
    /\ Len(r) > 0 => r[Len(r)] # 0

C5_WitnessUtf16 ==
    /\ op = "read_fstring"
    /\ data = <<130, 65, 0, 0, 0>>
    /\ start = 0
    /\ ret.str = <<65>>
    /\ pos = 5

----------------------------------------------------------------------------
(* ue2/package.py : UE2Package                                             *)

\* strings are sequences of code points
Str_None == <<78, 111, 110, 101>>
Str_Class == <<67, 108, 97, 115, 115>>
Str_Empty == <<>>

\* SIGNATURE = 0x9E2A83C1 as the four bytes read_uint32 decodes it from
SIGNATURE == <<193, 131, 42, 158>>

\* read_uint16 / read_int32 / read_uint32: struct.unpack raises struct.error
\* unless read_bytes returned all n bytes; the value is kept as its bytes
read_fixed(d, p, n) ==
    [ok |-> Len(PySlice(d, p, p + n)) = n, bytes |-> PySlice(d, p, p + n), pos |-> p + n]

\* "<I" of four bytes (the generated headers stay below 2^31)
U32(bs) == bs[1] + 256 * bs[2] + 65536 * bs[3] + 16777216 * bs[4]

\* a bug that forgets the lower bound of the range
InRange_no_lower(v, seq) == v.hi = 0 /\ v.lo < Len(seq)

\* len(seq) > idx for a Python int idx >= 0, and seq[idx]
InRange(v, seq) == ~v.neg /\ v.hi = 0 /\ v.lo < Len(seq)

\* UE2Package._safe_name
safe_name(nm, index) == IF InRange(index, nm) THEN nm[index.lo + 1] ELSE Str_Empty

\* idx = -class_index - 1, idx = class_index - 1
ImportSlot(class_index) == PyInt(FALSE, class_index.hi, class_index.lo - 1)
ExportSlot(class_index) == PyInt(FALSE, class_index.hi, class_index.lo - 1)

\* StaticMeshPackageReader.get_class_name (extractors/extract_staticmesh.py),
\* called on the opened container
StaticMeshPackageReader_get_class_name(imp, exps, class_index) ==
    IF IsNegative(class_index)
    THEN IF class_index.lo >= 1 /\ InRange(ImportSlot(class_index), imp)
         THEN imp[ImportSlot(class_index).lo + 1].object_name
         ELSE Str_Empty
    ELSE IF IsPositive(class_index)
    THEN IF class_index.lo >= 1 /\ InRange(ExportSlot(class_index), exps)
         THEN exps[ExportSlot(class_index).lo + 1].object_name
         ELSE Str_Empty
    ELSE Str_Empty

\* UE2Package._get_class_name, over the tables as they are when it is called
UE2Package_get_class_name(imp, exps, class_index) ==
    IF IsNegative(class_index)
    THEN IF class_index.lo >= 1 /\ InRange(ImportSlot(class_index), imp)
         THEN imp[ImportSlot(class_index).lo + 1].object_name
         ELSE Str_Class
    ELSE IF IsPositive(class_index)
    THEN IF class_index.lo >= 1 /\ InRange(ExportSlot(class_index), exps)
         THEN exps[ExportSlot(class_index).lo + 1].object_name
         ELSE Str_Class
    ELSE Str_Class

\* a Python int as a slice bound: beyond 2^27 every buffer of the model ends
SliceInt(v) ==
    IF v.hi > 0 THEN (IF v.neg THEN -(MaxLo + 1) ELSE MaxLo + 1) ELSE ToInt(v)

\* UE2Package.get_export_data
get_export_data(d, export) ==
    IF ~IsPositive(export.serial_size) THEN <<>>
    ELSE PySlice(d, SliceInt(export.serial_offset),
                 SliceInt(export.serial_offset) + SliceInt(export.serial_size))

EntryErr(p) == [ok |-> FALSE, pos |-> p]

\* _parse_header, lines 49-66: the 36 bytes of the header
parse_header_fields(d) ==
    LET sig == read_fixed(d, 0, 4)
        rest == read_fixed(d, 4, 32)
        f(k) == U32(SubSeq(rest.bytes, k - 3, k))
    IN  IF ~sig.ok THEN [status |-> "Truncated", need |-> 4, hdr |-> NoHeader]
        ELSE IF sig.bytes # SIGNATURE
             THEN [status |-> "InvalidSignature", need |-> 4, hdr |-> NoHeader]
        ELSE IF ~rest.ok THEN [status |-> "Truncated", need |-> 36, hdr |-> NoHeader]
        ELSE [status |-> "ok", need |-> 36,
              hdr |-> [name_count |-> f(12), name_offset |-> f(16),
                       export_count |-> f(20), export_offset |-> f(24),
                       import_count |-> f(28), import_offset |-> f(32)]]

\* a name entry read without its flags word being checked
parse_name_entry_unchecked(d, p) ==
    Bind(read_fstring(d, p), LAMBDA f :
        [ok |-> f.ok, name |-> f.str, pos |-> f.pos + 4])

\* _parse_names, one turn of the loop: read_fstring, then the flags word
parse_name_entry(d, p) ==
    Bind(read_fstring(d, p), LAMBDA f :
        IF ~f.ok THEN [ok |-> FALSE, name |-> <<>>, pos |-> f.pos]
        ELSE Bind(read_fixed(d, f.pos, 4), LAMBDA u :
                [ok |-> u.ok, name |-> f.str, pos |-> u.pos]))

\* one read of a table entry: read_compact_index, or a 4-byte struct read
read_field(d, p, kind) ==
    IF kind = "index"
    THEN read_compact_index(d, p)
    ELSE [ok |-> read_fixed(d, p, 4).ok, val |-> read_fixed(d, p, 4).bytes,
          pos |-> read_fixed(d, p, 4).pos]

\* the reads of an entry in the order of the source; the first that raises
\* ends them, the cursor where it stopped
RECURSIVE read_fields(_, _, _)
read_fields(d, p, kinds) ==
    IF kinds = <<>> THEN [ok |-> TRUE, vals |-> <<>>, pos |-> p]
    ELSE Bind(read_field(d, p, Head(kinds)), LAMBDA r :
            IF ~r.ok THEN [ok |-> FALSE, vals |-> <<>>, pos |-> r.pos]
            ELSE Bind(read_fields(d, r.pos, Tail(kinds)), LAMBDA rest :
                    [ok |-> rest.ok, vals |-> <<r.val>> \o rest.vals, pos |-> rest.pos]))

\* _parse_imports, one turn of the loop: class_package, class_name,
\* package, object_name
parse_import_entry(d, p) ==
    Bind(read_fields(d, p, <<"index", "index", "int32", "index">>), LAMBDA r :
        IF ~r.ok THEN [ok |-> FALSE, pos |-> r.pos]
        ELSE [ok |-> TRUE, pos |-> r.pos,
              class_package |-> r.vals[1], class_name |-> r.vals[2],
              package |-> r.vals[3], object_name |-> r.vals[4]])

\* the end of an export entry: serial_offset is read only if serial_size > 0
read_serial_offset(d, p, serial_size) ==
    IF IsPositive(serial_size) THEN read_compact_index(d, p) ELSE CIOk(FALSE, 0, 0, p)

\* _parse_exports, one turn of the loop: class_index, super_index, package,
\* object_name, object_flags, serial_size, serial_offset
parse_export_entry(d, p) ==
    Bind(read_fields(d, p, <<"index", "index", "int32", "index", "uint32", "index">>),
         LAMBDA r :
        IF ~r.ok THEN [ok |-> FALSE, pos |-> r.pos]
        ELSE Bind(read_serial_offset(d, r.pos, r.vals[6]), LAMBDA so :
                IF ~so.ok THEN [ok |-> FALSE, pos |-> so.pos]
                ELSE [ok |-> TRUE, pos |-> so.pos,
                      class_index |-> r.vals[1], super_index |-> r.vals[2],
                      package |-> r.vals[3], object_name |-> r.vals[4],
                      object_flags |-> r.vals[5], serial_size |-> r.vals[6],
                      serial_offset |-> so.val]))

----------------------------------------------------------------------------
(* Generated package files                                                 *)

RECURSIVE Concat(_)
Concat(ss) == IF Len(ss) = 0 THEN <<>> ELSE Head(ss) \o Concat(Tail(ss))

LE32(n) == <<n % 256, (n \div 256) % 256, (n \div 65536) % 256, n \div 16777216>>

\* an FString as the client writes it: length counts the NUL that ends it
FStringBytes(str) == <<Len(str) + 1>> \o str \o <<0>>

\* names "None", "A", "B", then "E1", "E2", ... for the exports
ExportName(k) == <<69, 48 + k>>
FileNames == <<Str_None, <<65>>, <<66>>>> \o [k \in 1..(MaxExports) |-> ExportName(k)]
NameTableBytes == Concat([i \in 1..Len(FileNames) |-> FStringBytes(FileNames[i]) \o LE32(0)])

\* two imports, named "A" and "B"
NumImports == 2
ImportBytes(k) == Encode(FromInt(0)) \o Encode(FromInt(0)) \o LE32(0) \o Encode(FromInt(k))
ImportTableBytes == Concat([k \in 1..NumImports |-> ImportBytes(k)])

\* the four payload bytes at the end of the file
PayloadBytes == <<10, 20, 30, 40>>

\* serial_size and serial_offset of an export: no payload, a negative size,
\* two bytes inside the payload area, four bytes that run over the end of
\* the file, or a negative offset
SerialKinds == {"none", "neg", "inside", "overrun", "negoff"}
SerialOf(kind, po) ==
    CASE kind = "none" -> [size |-> 0, off |-> 0]
      [] kind = "neg" -> [size |-> -1, off |-> 0]
      [] kind = "inside" -> [size |-> 2, off |-> po + 1]
      [] kind = "overrun" -> [size |-> 4, off |-> po + 2]
      [] kind = "negoff" -> [size |-> 2, off |-> -3]

\* class indices: beyond the imports, both imports, "Class", the exports,
\* beyond the exports
ClassIndexChoices == (-(NumImports + 1))..(MaxExports + 1)

ExportBytes(k, ci, kind, po) ==
    Encode(FromInt(ci)) \o Encode(FromInt(0)) \o LE32(0) \o Encode(FromInt(2 + k))
    \o LE32(k) \o Encode(FromInt(SerialOf(kind, po).size))
    \o (IF SerialOf(kind, po).size > 0 THEN Encode(FromInt(SerialOf(kind, po).off)) ELSE <<>>)

\* an export entry takes 12 bytes, and 1 or 2 more for its offset
ExportLen(kind) ==
    CASE kind \in {"none", "neg"} -> 12
      [] kind = "negoff" -> 13
      [] kind \in {"inside", "overrun"} -> 14

RECURSIVE SumLen(_)
SumLen(kinds) == IF Len(kinds) = 0 THEN 0 ELSE ExportLen(Head(kinds)) + SumLen(Tail(kinds))

\* headers: as written, a wrong signature, a count one too many, the name
\* table at the end of the file, one name whose payload the file cuts short
HeaderVariants ==
    {"ok", "badsig", "names+1", "imports+1", "exports+1", "names@eof", "name@end"}

\* a file with the export entries cis (class indices) and kinds (serial
\* ranges), laid out header, names, imports, exports, payload
MakeFile(cis, kinds, hv) ==
    LET n == Len(cis)
        name_offset == 36
        import_offset == name_offset + Len(NameTableBytes)
        export_offset == import_offset + Len(ImportTableBytes)
        po == export_offset + SumLen(kinds)
        total == po + Len(PayloadBytes)
        sig == IF hv = "badsig" THEN <<193, 131, 42, 159>> ELSE SIGNATURE
        header ==
            sig \o <<128, 0, 35, 0>> \o LE32(0)
            \o LE32(CASE hv = "names+1" -> Len(FileNames) + 1
                      [] hv = "name@end" -> 1
                      [] OTHER -> Len(FileNames))
            \o LE32(CASE hv = "names@eof" -> total
                      [] hv = "name@end" -> total - 2
                      [] OTHER -> name_offset)
            \o LE32(n + (IF hv = "exports+1" THEN 1 ELSE 0))
            \o LE32(export_offset)
            \o LE32(NumImports + (IF hv = "imports+1" THEN 1 ELSE 0))
            \o LE32(import_offset)
        exportTable == Concat([k \in 1..n |-> ExportBytes(k, cis[k], kinds[k], po)])
    IN  header \o NameTableBytes \o ImportTableBytes \o exportTable \o PayloadBytes

\* MaxExports exports of class imports[0] with their payload inside the file
BaseCis == [k \in 1..MaxExports |-> -1]
BaseKinds == [k \in 1..MaxExports |-> "inside"]
BaseFile == MakeFile(BaseCis, BaseKinds, "ok")

PackageFiles ==
    {MakeFile(cis, [k \in 1..Len(cis) |-> "inside"], "ok") :
        cis \in SeqsUpTo(ClassIndexChoices, MaxExports)}
    \cup {MakeFile(BaseCis, kinds, "ok") : kinds \in [1..MaxExports -> SerialKinds]}
    \cup {MakeFile(BaseCis, BaseKinds, hv) : hv \in HeaderVariants}
    \cup {SubSeq(BaseFile, 1, cut) : cut \in 0..Len(BaseFile)}

----------------------------------------------------------------------------
(* Package state machine: UE2Package(filepath), then its accessors         *)

PkgInit ==
    /\ data \in PackageFiles
    /\ pos = 0
    /\ op = "init"
    /\ start = 0
    /\ ret = NoRet
    /\ pkg_pc = "header"
    /\ hdr = NoHeader
    /\ names = <<>>
    /\ imports = <<>>
    /\ exports = <<>>
    /\ high = 0
    /\ NoProps
    /\ NoMesh

\* the constructor raised: no container exists
Reject(status, need) ==
    /\ pkg_pc' = status
    /\ high' = Max(high, need)
    /\ UNCHANGED <<hdr, names, imports, exports, pos>>

\* _parse_header up to the call of _parse_names, and its r.seek(name_offset)
ParseHeader ==
    /\ pkg_pc = "header"
    /\ LET h == parse_header_fields(data)
       IN  /\ pkg_pc' = (IF h.status = "ok" THEN "names" ELSE h.status)
           /\ hdr' = h.hdr
           /\ pos' = (IF h.status = "ok" THEN h.hdr.name_offset ELSE pos)
           /\ high' = h.need
    /\ UNCHANGED <<names, imports, exports>>
    /\ UNCHANGED <<data, op, start, ret>>
    /\ UNCHANGED propVars
    /\ UNCHANGED meshVars

\* _parse_names: one name
ParseName ==
    /\ pkg_pc = "names"
    /\ Len(names) < hdr.name_count
    /\ LET r == parse_name_entry(data, pos)
       IN  IF r.ok
           THEN /\ names' = Append(names, r.name)
                /\ pos' = r.pos
                /\ high' = Max(high, r.pos)
                /\ UNCHANGED <<pkg_pc, hdr, imports, exports>>
           ELSE Reject("Truncated", r.pos)
    /\ UNCHANGED <<data, op, start, ret>>
    /\ UNCHANGED propVars
    /\ UNCHANGED meshVars

\* _parse_imports begins: r.seek(import_offset)
SeekImports ==
    /\ pkg_pc = "names"
    /\ Len(names) = hdr.name_count
    /\ pkg_pc' = "imports"
    /\ pos' = hdr.import_offset
    /\ UNCHANGED <<hdr, names, imports, exports, high>>
    /\ UNCHANGED <<data, op, start, ret>>
    /\ UNCHANGED propVars
    /\ UNCHANGED meshVars

\* _parse_imports: one import
ParseImport ==
    /\ pkg_pc = "imports"
    /\ Len(imports) < hdr.import_count
    /\ LET r == parse_import_entry(data, pos)
       IN  IF r.ok
           THEN /\ imports' = Append(imports,
                        [index |-> -(Len(imports) + 1),
                         class_package |-> safe_name(names, r.class_package),
                         class_name |-> safe_name(names, r.class_name),
                         package |-> r.package,
                         object_name |-> safe_name(names, r.object_name)])
                /\ pos' = r.pos
                /\ high' = Max(high, r.pos)
                /\ UNCHANGED <<pkg_pc, hdr, names, exports>>
           ELSE Reject("Truncated", r.pos)
    /\ UNCHANGED <<data, op, start, ret>>
    /\ UNCHANGED propVars
    /\ UNCHANGED meshVars

\* _parse_exports begins: r.seek(export_offset)
SeekExports ==
    /\ pkg_pc = "imports"
    /\ Len(imports) = hdr.import_count
    /\ pkg_pc' = "exports"
    /\ pos' = hdr.export_offset
    /\ UNCHANGED <<hdr, names, imports, exports, high>>
    /\ UNCHANGED <<data, op, start, ret>>
    /\ UNCHANGED propVars
    /\ UNCHANGED meshVars

\* _parse_exports: one export, its class name resolved as it is appended
ParseExport ==
    /\ pkg_pc = "exports"
    /\ Len(exports) < hdr.export_count
    /\ LET r == parse_export_entry(data, pos)
       IN  IF r.ok
           THEN /\ exports' = Append(exports,
                        [index |-> Len(exports) + 1,
                         class_index |-> r.class_index,
                         class_name |-> UE2Package_get_class_name(imports, exports, r.class_index),
                         super_index |-> r.super_index,
                         package |-> r.package,
                         object_name |-> safe_name(names, r.object_name),
                         object_flags |-> r.object_flags,
                         serial_size |-> r.serial_size,
                         serial_offset |-> r.serial_offset])
                /\ pos' = r.pos
                /\ high' = Max(high, r.pos)
                /\ UNCHANGED <<pkg_pc, hdr, names, imports>>
           ELSE Reject("Truncated", r.pos)
    /\ UNCHANGED <<data, op, start, ret>>
    /\ UNCHANGED propVars
    /\ UNCHANGED meshVars

\* __init__ returns: the container exists
FinishOpen ==
    /\ pkg_pc = "exports"
    /\ Len(exports) = hdr.export_count
    /\ pkg_pc' = "open"
    /\ UNCHANGED <<hdr, names, imports, exports, high, pos>>
    /\ UNCHANGED <<data, op, start, ret>>
    /\ UNCHANGED propVars
    /\ UNCHANGED meshVars

\* pkg.get_export_data(export) for an export of the container
GetExportData ==
    /\ pkg_pc = "open"
    /\ \E i \in 1..Len(exports) :
          /\ start' = i
          /\ ret' = get_export_data(data, exports[i])
    /\ op' = "get_export_data"
    /\ UNCHANGED <<data, pos>>
    /\ UNCHANGED pkgVars
    /\ UNCHANGED propVars
    /\ UNCHANGED meshVars

\* reader.get_class_name(exp["class_index"]) for an export of the container
GetClassName ==
    /\ pkg_pc = "open"
    /\ \E i \in 1..Len(exports) :
          /\ start' = i
          /\ ret' = StaticMeshPackageReader_get_class_name(imports, exports,
                                                           exports[i].class_index)
    /\ op' = "get_class_name"
    /\ UNCHANGED <<data, pos>>
    /\ UNCHANGED pkgVars
    /\ UNCHANGED propVars
    /\ UNCHANGED meshVars

PkgNext ==
    \/ ParseHeader
    \/ ParseName
    \/ SeekImports
    \/ ParseImport
    \/ SeekExports
    \/ ParseExport
    \/ FinishOpen
    \/ GetExportData
    \/ GetClassName

PkgSpec == PkgInit /\ [][PkgNext]_vars

----------------------------------------------------------------------------
(* Properties of the package container                                     *)

Opened == pkg_pc = "open"
Rejected == pkg_pc \in {"InvalidSignature", "Truncated"}
HasSignature == Len(data) >= 4 /\ SubSeq(data, 1, 4) = SIGNATURE

\* C6: opening is all-or-nothing.  A file whose first four bytes are not
\* the signature is rejected as InvalidSignature with nothing read beyond
\* them and no table entry parsed; a container is returned only if no read
\* of the constructor went past the end of the buffer, and then its tables
\* hold exactly name_count, import_count and export_count entries.
C6_AllOrNothing ==
    /\ (pkg_pc = "InvalidSignature" =>
            /\ ~HasSignature
            /\ high = 4
            /\ names = <<>> /\ imports = <<>> /\ exports = <<>>)
    /\ (~HasSignature => pkg_pc \in {"header", "InvalidSignature", "Truncated"})
    /\ (Opened =>
            /\ high <= Len(data)
            /\ Len(names) = hdr.name_count
            /\ Len(imports) = hdr.import_count
            /\ Len(exports) = hdr.export_count)
    /\ (high > Len(data) => pkg_pc = "Truncated")

\* a file cut inside its export table is rejected after the name table, the
\* import table and one export were read
C6_Witness ==
    /\ pkg_pc = "Truncated"
    /\ Len(names) = Len(FileNames)
    /\ Len(imports) = NumImports
    /\ Len(exports) = MaxExports - 1
    /\ hdr.export_count = MaxExports
    /\ high > Len(data)

ResolvesToImport(e) ==
    IsNegative(e.class_index) /\ InRange(ImportSlot(e.class_index), imports)
ResolvesToExport(e) ==
    IsPositive(e.class_index) /\ InRange(ExportSlot(e.class_index), exports)

\* C7: in an opened container the class name of an export with a negative
\* class_index is the object name of imports[-class_index - 1], with a
\* positive class_index that of exports[class_index - 1] wherever that
\* entry stands in the table, and with class_index 0 it is "Class".
C7_ClassIndexResolution ==
    Opened =>
        \A i \in 1..Len(exports) :
            LET e == exports[i]
            IN  /\ (ResolvesToImport(e) =>
                        e.class_name = imports[ImportSlot(e.class_index).lo + 1].object_name)
                /\ (ResolvesToExport(e) =>
                        e.class_name = exports[ExportSlot(e.class_index).lo + 1].object_name)
                /\ (IsZero(e.class_index) => e.class_name = Str_Class)

\* C8: in an opened container an export whose class_index names no import
\* and no export has the empty string as its class name.
C8_UnresolvedIsEmpty ==
    Opened =>
        \A i \in 1..Len(exports) :
            LET e == exports[i]
            IN  (~IsZero(e.class_index) /\ ~ResolvesToImport(e) /\ ~ResolvesToExport(e))
                    => e.class_name = Str_Empty

\* C9: get_export_data(e) is the bytes of the file at
\* [serial_offset, serial_offset + serial_size), a range inside the file,
\* when serial_size > 0, and empty when serial_size <= 0.
C9_ExportDataSlice ==
    op = "get_export_data" =>
        LET e == exports[start]
            off == SliceInt(e.serial_offset)
            size == SliceInt(e.serial_size)
        IN  IF IsPositive(e.serial_size)
            THEN /\ 0 <= off
                 /\ off + size <= Len(data)
                 /\ Len(ret) = size
                 /\ ret = SubSeq(data, off + 1, off + size)
            ELSE ret = <<>>

----------------------------------------------------------------------------
(* ue2/properties.py : parse_properties                                    *)

Str_Mesh == <<77, 101, 115, 104>>
Str_Location == <<76, 111, 99, 97, 116, 105, 111, 110>>
Str_InternalTime == <<73, 110, 116, 101, 114, 110, 97, 108, 84, 105, 109, 101>>
Str_Vector == <<86, 101, 99, 116, 111, 114>>
Str_Mesh1 == <<77, 101, 115, 104, 49>>

PROP_TYPES ==
    [t \in 0..15 |->
        <<"None", "Byte", "Int", "Bool", "Float", "Object", "Name", "String", "Class",
          "Array", "Struct", "Vector", "Rotator", "Str", "Map", "FixedArray">>[t + 1]]

\* the tables of the module, as far as the names of the model's name table go
INVALID_TYPES == {14, 15}
INVALID_STRUCT_NAMES == {Str_InternalTime}
NON_STRING_PROP_NAMES == {Str_Vector, Str_InternalTime, Str_Location}
NON_NAME_PROP_NAMES == {Str_InternalTime, Str_Vector}
NON_ARRAY_PROP_NAMES == {Str_Vector}

\* EXPECTED_SIZES: the one size of each fixed-size type
EXPECTED_SIZES == [t \in {1, 2, 3, 4, 11, 12} |->
                      CASE t = 1 -> 1 [] t = 2 -> 4 [] t = 3 -> 0
                        [] t = 4 -> 4 [] t = 11 -> 12 [] t = 12 -> 12]

\* a bug that checks the rejected types only
validate_property_type_size_types_only(prop_type, prop_size) ==
    prop_type \notin INVALID_TYPES

\* validate_property_type_size: EXPECTED_SIZES, MIN_SIZES, MAX_SIZES
validate_property_type_size(prop_type, prop_size) ==
    IF prop_type \in INVALID_TYPES THEN FALSE
    ELSE IF prop_type \in {1, 2, 3, 4, 11, 12}
    THEN prop_size = (CASE prop_type = 1 -> 1
                        [] prop_type = 2 -> 4
                        [] prop_type = 3 -> 0
                        [] prop_type = 4 -> 4
                        [] prop_type = 11 -> 12
                        [] prop_type = 12 -> 12)
    ELSE IF prop_type \in {7, 13} /\ prop_size < 2 THEN FALSE
    ELSE IF prop_type \in {9, 10} /\ prop_size < 4 THEN FALSE
    ELSE IF prop_type \in {5, 6, 8} /\ prop_size > 5 THEN FALSE
    ELSE TRUE

\* a size no check of the decoder accepts: above the sanity limit
OverLimit == 10000001

\* struct.unpack("<I", ...) of four bytes; from 2^31 on only "too large"
\* is kept of the value
U32Capped(bs) == IF bs[4] >= 128 THEN OverLimit ELSE U32(bs)

\* "Calculate property size": the size for size_type, read at off if variable
read_prop_size(d, off, size_type) ==
    CASE size_type = 0 -> [ok |-> TRUE, size |-> 1, pos |-> off]
      [] size_type = 1 -> [ok |-> TRUE, size |-> 2, pos |-> off]
      [] size_type = 2 -> [ok |-> TRUE, size |-> 4, pos |-> off]
      [] size_type = 3 -> [ok |-> TRUE, size |-> 12, pos |-> off]
      [] size_type = 4 -> [ok |-> TRUE, size |-> 16, pos |-> off]
      [] size_type = 5 ->
            IF off >= Len(d) THEN [ok |-> FALSE, size |-> 0, pos |-> off]
            ELSE [ok |-> TRUE, size |-> d[off + 1], pos |-> off + 1]
      [] size_type = 6 ->
            IF off + 2 > Len(d) THEN [ok |-> FALSE, size |-> 0, pos |-> off]
            ELSE [ok |-> TRUE, size |-> d[off + 1] + 256 * d[off + 2], pos |-> off + 2]
      [] size_type = 7 ->
            IF off + 4 > Len(d) THEN [ok |-> FALSE, size |-> 0, pos |-> off]
            ELSE [ok |-> TRUE, size |-> U32Capped(SubSeq(d, off + 1, off + 4)), pos |-> off + 4]

IsDigit(c) == c >= 48 /\ c <= 57

\* struct_name[-1].isdigit() of a name longer than 3
LooksLikeObjectName(str) == Len(str) > 3 /\ IsDigit(str[Len(str)])

NoStructName == <<>>

\* names[v]: Python counts a negative index from the end of the list; an
\* index outside the list raises IndexError (<<>> here)
names_getitem(nm, v) ==
    IF v.hi = 0 /\ ~v.neg /\ v.lo < Len(nm) THEN nm[v.lo + 1]
    ELSE IF v.hi = 0 /\ v.neg /\ v.lo <= Len(nm) THEN nm[Len(nm) - v.lo + 1]
    ELSE <<>>

\* "Read struct name for struct types": outcome "ok", "break" or "IndexError"
\* looked_up: the indices names was indexed with
read_struct_name(d, off, prop_type, nm) ==
    IF prop_type # 10
    THEN [outcome |-> "ok", struct_name |-> NoStructName, pos |-> off, looked_up |-> {}]
    ELSE Bind(read_compact_index_at(d, off), LAMBDA si :
            IF ~si.ok
            THEN [outcome |-> "IndexError", struct_name |-> NoStructName, pos |-> off,
                  looked_up |-> {}]
            ELSE IF ~InRange(si.val, nm)
                 THEN [outcome |-> "ok", struct_name |-> NoStructName, pos |-> si.pos,
                       looked_up |-> {}]
            ELSE IF names_getitem(nm, si.val) \in INVALID_STRUCT_NAMES
                    \/ LooksLikeObjectName(names_getitem(nm, si.val))
                 THEN [outcome |-> "break", struct_name |-> NoStructName, pos |-> si.pos,
                       looked_up |-> {si.val}]
            ELSE [outcome |-> "ok", struct_name |-> names_getitem(nm, si.val), pos |-> si.pos,
                  looked_up |-> {si.val}])

\* "Read array index": one byte, if the array flag is set on a non-Bool
read_array_index(d, off, prop_type, array_flag) ==
    IF array_flag = 1 /\ prop_type # 3 /\ off < Len(d)
    THEN [array_index |-> d[off + 1], pos |-> off + 1]
    ELSE [array_index |-> 0, pos |-> off]

NoProperty ==
    [name |-> <<>>, type |-> "None", type_id |-> 0, size |-> 0, array_index |-> 0,
     struct_name |-> NoStructName, has_value |-> FALSE, value_hex |-> <<>>,
     bool_value |-> FALSE, name_value |-> <<>>, list_index |-> 0]

PropBreak(off) == [outcome |-> "break", prop |-> NoProperty, pos |-> off, looked_up |-> {}]
PropRaise(off) == [outcome |-> "IndexError", prop |-> NoProperty, pos |-> off, looked_up |-> {}]

\* the outcome r of a step that came after names was indexed with S
WithLookups(r, S) == [r EXCEPT !.looked_up = @ \cup S]

\* prop_type 6: name_ref, _ = read_compact_index(value_bytes, 0); an
\* IndexError is swallowed by the bare except; ref |-> TRUE if
\* names[name_ref] is evaluated
read_name_value(value_bytes, nm) ==
    Bind(read_compact_index_at(value_bytes, 0), LAMBDA nr :
        IF nr.ok /\ InRange(nr.val, nm)
        THEN [ref |-> TRUE, idx |-> nr.val, value |-> names_getitem(nm, nr.val)]
        ELSE [ref |-> FALSE, idx |-> PyZero, value |-> <<>>])

\* "Read and parse value" and properties.append: the payload is consumed only
\* if it lies inside the buffer, the property is emitted either way
emit_property(d, off, prop_name, prop_type, prop_size, array_flag, array_index, struct_name, nm, list) ==
    Bind(IF prop_type = 6 /\ off + prop_size <= Len(d)
         THEN read_name_value(PySlice(d, off, off + prop_size), nm)
         ELSE [ref |-> FALSE, idx |-> PyZero, value |-> <<>>], LAMBDA nv :
    [outcome |-> "append",
     prop |-> [name |-> prop_name, type |-> PROP_TYPES[prop_type], type_id |-> prop_type,
               size |-> prop_size, array_index |-> array_index,
               struct_name |-> struct_name,
               has_value |-> off + prop_size <= Len(d),
               value_hex |-> IF off + prop_size <= Len(d)
                             THEN PySlice(d, off, off + prop_size) ELSE <<>>,
               bool_value |-> prop_type = 3 /\ array_flag = 1 /\ off + prop_size <= Len(d),
               name_value |-> nv.value,
               list_index |-> list],
     pos |-> IF off + prop_size <= Len(d) THEN off + prop_size ELSE off,
     looked_up |-> IF nv.ref THEN {nv.idx} ELSE {}])

\* from the struct name to the append
decode_property_tail(d, off, prop_name, prop_type, prop_size, array_flag, nm, list) ==
    Bind(read_struct_name(d, off, prop_type, nm), LAMBDA st :
        IF st.outcome = "break" THEN WithLookups(PropBreak(st.pos), st.looked_up)
        ELSE IF st.outcome = "IndexError" THEN PropRaise(st.pos)
        ELSE Bind(read_array_index(d, st.pos, prop_type, array_flag), LAMBDA ai :
                WithLookups(emit_property(d, ai.pos, prop_name, prop_type, prop_size,
                                          array_flag, ai.array_index, st.struct_name, nm, list),
                            st.looked_up)))

\* the checks on the info byte and the size
decode_property_sized(d, off, prop_name, info_byte, nm, list) ==
    LET prop_type == info_byte % 16
        size_type == (info_byte \div 16) % 8
        array_flag == (info_byte \div 128) % 2
    IN  IF prop_type \in {7, 13} /\ prop_name \in NON_STRING_PROP_NAMES THEN PropBreak(off)
        ELSE IF prop_type = 6 /\ prop_name \in NON_NAME_PROP_NAMES THEN PropBreak(off)
        ELSE Bind(read_prop_size(d, off, size_type), LAMBDA sz :
                IF ~sz.ok THEN PropBreak(sz.pos)
                ELSE IF ~validate_property_type_size(prop_type, sz.size) THEN PropBreak(sz.pos)
                ELSE IF sz.size > 10000000 THEN PropBreak(sz.pos)
                ELSE decode_property_tail(d, sz.pos, prop_name, prop_type, sz.size,
                                          array_flag, nm, list))

\* the body of the loop after a name that is not "None": off is new_offset
decode_property(d, off, prop_name, nm, list) ==
    IF off >= Len(d) THEN PropBreak(off)
    ELSE decode_property_sized(d, off + 1, prop_name, d[off + 1], nm, list)

\* a terminator that follows a terminator ends the lists
IsSecondNone_first(n) == n >= 1
IsSecondNone(n) == n >= 2

\* the cap of the loop on len(properties)
MaxProperties == 200

----------------------------------------------------------------------------
(* scripts/lib/staticmesh_construct.py : find_none_terminator              *)

FntErr == [ok |-> FALSE, pos |-> 0]
FntOk(p) == [ok |-> TRUE, pos |-> p]

\* "Determine size": a Bool has none, else by size_type; data[pos] and
\* struct.unpack raise past the end
fnt_size(d, q, prop_type, size_type) ==
    IF prop_type = 3 THEN [ok |-> TRUE, size |-> 0, pos |-> q]
    ELSE CASE size_type = 0 -> [ok |-> TRUE, size |-> 1, pos |-> q]
           [] size_type = 1 -> [ok |-> TRUE, size |-> 2, pos |-> q]
           [] size_type = 2 -> [ok |-> TRUE, size |-> 4, pos |-> q]
           [] size_type = 3 -> [ok |-> TRUE, size |-> 12, pos |-> q]
           [] size_type = 4 -> [ok |-> TRUE, size |-> 16, pos |-> q]
           [] size_type = 5 ->
                IF q >= Len(d) THEN [ok |-> FALSE, size |-> 0, pos |-> q]
                ELSE [ok |-> TRUE, size |-> d[q + 1], pos |-> q + 1]
           [] size_type = 6 ->
                IF q + 2 > Len(d) THEN [ok |-> FALSE, size |-> 0, pos |-> q]
                ELSE [ok |-> TRUE, size |-> d[q + 1] + 256 * d[q + 2], pos |-> q + 2]
           [] size_type = 7 ->
                IF q + 4 > Len(d) THEN [ok |-> FALSE, size |-> 0, pos |-> q]
                ELSE [ok |-> TRUE, size |-> U32Capped(SubSeq(d, q + 1, q + 4)), pos |-> q + 4]

\* "_, pos = read_compact_index_at(data, pos)" if present
fnt_skip_index(d, q, present) ==
    IF present THEN read_compact_index_at(d, q) ELSE CIOk(FALSE, 0, 0, q)

RECURSIVE fnt_loop(_, _, _)

\* the array index and the value of a record, then the next record
fnt_value(d, nm, q, info, size) ==
    Bind(fnt_skip_index(d, q, info >= 128 /\ info % 16 # 3), LAMBDA ai :
        IF ~ai.ok THEN FntErr ELSE fnt_loop(d, nm, ai.pos + size))

\* the size and the struct name of a record
fnt_record(d, nm, q, info) ==
    Bind(fnt_size(d, q, info % 16, (info \div 16) % 8), LAMBDA sz :
        IF ~sz.ok THEN FntErr
        ELSE Bind(fnt_skip_index(d, sz.pos, info % 16 = 10), LAMBDA st :
                IF ~st.ok THEN FntErr ELSE fnt_value(d, nm, st.pos, info, sz.size)))

\* the while loop from pos = p; leaving it without a return raises
fnt_loop(d, nm, p) ==
    IF p >= Min(Len(d), 1048576) THEN FntErr
    ELSE Bind(read_compact_index_at(d, p), LAMBDA idx :
            IF ~idx.ok THEN FntErr
            ELSE IF IsZero(idx.val) THEN FntOk(idx.pos)
            ELSE IF IsNegative(idx.val) \/ ~InRange(idx.val, nm) THEN FntErr
            ELSE IF idx.pos >= Len(d) THEN FntErr
            ELSE fnt_record(d, nm, idx.pos + 1, d[idx.pos + 1]))

\* find_none_terminator(data, names): the offset after the first None, or
\* an exception (ok = FALSE)
find_none_terminator(d, nm) == fnt_loop(d, nm, 0)

----------------------------------------------------------------------------
(* ue2/properties.py : find_property_start, score_property_chain          *)

\* for start in range(min(max_search, ...)): the default of max_search
DefaultMaxSearch == 50
\* while ... and seen_props < 100
MaxSeenProps == 100

\* str.isalpha() of an ASCII character
IsAlpha(c) == (c >= 65 /\ c <= 90) \/ (c >= 97 /\ c <= 122)

\* "Check for garbage names": -5 for a name that starts with a digit or "_",
\* -3 for one that ends with a digit and has a letter
name_penalty(prop_name) ==
    (IF IsDigit(prop_name[1]) \/ prop_name[1] = 95 THEN -5 ELSE 0)
    + (IF IsDigit(prop_name[Len(prop_name)])
          /\ \E i \in 1..Len(prop_name) : IsAlpha(prop_name[i])
       THEN -3 ELSE 0)

\* the score a chain ends with; read_compact_index_at raises IndexError for
\* an index the end of the data cuts (it never returns None), and so does
\* data[offset] past the end
SpcDone(score) == [raised |-> FALSE, score |-> score]
SpcRaise == [raised |-> TRUE, score |-> 0]

RECURSIVE spc_loop(_, _, _, _, _)

\* "Skip struct name" (its index is read, not looked up), "Skip array
\* index", "Skip value", then the next turn
spc_skip(d, nm, off, info, prop_size, score, seen_props) ==
    Bind(IF info % 16 = 10 THEN read_compact_index_at(d, off) ELSE CIOk(FALSE, 0, 0, off),
         LAMBDA st :
            IF ~st.ok THEN SpcRaise
            ELSE IF info >= 128 /\ info % 16 # 3
            THEN IF st.pos >= Len(d) THEN SpcDone(score)
                 ELSE spc_loop(d, nm, st.pos + 1 + prop_size, score + 1, seen_props + 1)
            ELSE spc_loop(d, nm, st.pos + prop_size, score + 1, seen_props + 1))

\* "Calculate property size", "Sanity check size", "Validate type/size
\* combination" for the info byte read at off
spc_sized(d, nm, off, info, score, seen_props) ==
    Bind(read_prop_size(d, off, (info \div 16) % 8), LAMBDA sz :
        IF ~sz.ok THEN SpcDone(score)
        ELSE IF sz.size > Len(d) - sz.pos THEN SpcDone(score)
        ELSE IF ~validate_property_type_size(info % 16, sz.size) THEN SpcDone(score)
        ELSE spc_skip(d, nm, sz.pos, info, sz.size, score, seen_props))

\* offset = new_offset; if offset >= len(data): break; info_byte = data[offset]
spc_record(d, nm, off, score, seen_props) ==
    IF off >= Len(d) THEN SpcDone(score)
    ELSE IF off + 1 \notin DOMAIN d THEN SpcRaise
    ELSE spc_sized(d, nm, off + 1, d[off + 1], score, seen_props)

\* one turn of the while loop of score_property_chain
spc_loop(d, nm, offset, score, seen_props) ==
    IF ~(offset < Len(d) - 1 /\ seen_props < MaxSeenProps) THEN SpcDone(score)
    ELSE Bind(read_compact_index_at(d, offset), LAMBDA idx :
            IF ~idx.ok THEN SpcRaise
            ELSE IF ~InRange(idx.val, nm) THEN SpcDone(score)
            ELSE LET prop_name == names_getitem(nm, idx.val)
                 IN  IF prop_name = Str_None
                     THEN SpcDone(score + 10 + seen_props * 2)
                     ELSE IF Len(prop_name) < 1 \/ Len(prop_name) > 100
                     THEN SpcDone(score)
                     ELSE spc_record(d, nm, idx.pos, score + name_penalty(prop_name),
                                     seen_props))

\* score_property_chain(data, names, start_offset)
score_property_chain(d, nm, start_offset) == spc_loop(d, nm, start_offset, 0, 0)

\* a bug that searches the whole buffer
search_limit_unbounded(d, max_search) == Len(d) - 2

\* min(max_search, len(data) - 2)
search_limit(d, max_search) == Min(max_search, Len(d) - 2)

RECURSIVE fps_loop(_, _, _, _, _, _)

\* for start in range(limit): the best offset and score so far
fps_loop(d, nm, start_offset, limit, best_offset, best_score) ==
    IF start_offset >= limit
    THEN [raised |-> FALSE, offset |-> IF best_score > 0 THEN best_offset ELSE -1]
    ELSE Bind(score_property_chain(d, nm, start_offset), LAMBDA s :
            IF s.raised THEN [raised |-> TRUE, offset |-> -1]
            ELSE IF s.score > best_score
            THEN fps_loop(d, nm, start_offset + 1, limit, start_offset, s.score)
            ELSE fps_loop(d, nm, start_offset + 1, limit, best_offset, best_score))

\* find_property_start(data, names, max_search): an offset or -1, or the
\* exception of a score_property_chain call
find_property_start(d, nm, max_search) ==
    IF Len(d) < 2 THEN [raised |-> FALSE, offset |-> -1]
    ELSE fps_loop(d, nm, 0, search_limit(d, max_search), -1, 0)

----------------------------------------------------------------------------
(* Generated property streams                                              *)

\* the name table the streams index: 0 "None", 1 "Mesh", 2 "Location",
\* 3 "InternalTime", 4 "Vector", 5 "Mesh1"
PropNames == <<Str_None, Str_Mesh, Str_Location, Str_InternalTime, Str_Vector, Str_Mesh1>>

\* pieces of a stream: the terminator; an Int, a Bool (set), a Byte and a
\* Struct property; an Int with a one-byte size (out of sync); a name index
\* outside the table; a name index that wants a third byte
PropPieces ==
    { <<0>>,
      <<1, 34, 7, 0, 0, 0>>,
      <<2, 211, 0>>,
      <<1, 1, 9>>,
      <<2, 42, 4, 1, 2, 3, 4>>,
      <<1, 2, 0>>,
      <<9>>,
      <<65, 128>> }

\* the pieces that decode as one property each
PropertyPieces ==
    { <<1, 34, 7, 0, 0, 0>>,
      <<2, 211, 0>>,
      <<1, 1, 9>>,
      <<2, 42, 4, 1, 2, 3, 4>> }

\* what may follow the last terminator of an object
PropTails == {<<>>, <<0>>, <<1, 1, 9>>, <<9, 9>>}

MaxPieces == 4
MaxListLen == 1

\* the size field that follows the info byte for size classes 5, 6 and 7,
\* holding n
SizeField(size_type, n) ==
    CASE size_type = 5 -> <<n>>
      [] size_type = 6 -> <<n, 0>>
      [] size_type = 7 -> <<n, 0, 0, 0>>
      [] OTHER -> <<>>

\* Bool records of "Mesh": type 3 under every size class, the value bit
\* clear or set, a declared size of 0 where the record declares one
BoolRecords ==
    {<<1, 3 + 16 * s + 128 * f>> \o SizeField(s, 0) : s \in 0..7, f \in 0..1}

\* records the desynchronisation checks are about: a Float that declares
\* 7 bytes, a Map and a FixedArray, "Location" as Str and "Vector" as String,
\* "Vector" as Name, "Vector" as Array of 4 bytes
DesyncRecords ==
    { <<1, 84, 7, 1, 2, 3, 4, 5, 6, 7>>,
      <<1, 14, 9>>,
      <<1, 15, 9>>,
      <<2, 93, 2, 1, 0>>,
      <<4, 87, 2, 1, 0>>,
      <<4, 6, 1>>,
      <<4, 41, 1, 2, 3, 4>> }

\* records whose name indices matter: the property name index -1; a
\* Struct whose struct name index is 9 or -1; a Name whose value is the
\* index 2, 9 or -1
IndexRecords ==
    { <<129, 34, 7, 0, 0, 0>>,
      <<2, 42, 9, 1, 2, 3, 4>>,
      <<2, 42, 129, 1, 2, 3, 4>>,
      <<1, 6, 2>>,
      <<1, 6, 9>>,
      <<1, 6, 129>> }

\* records the end of the buffer may cut: an Int without its payload and
\* with one byte of it, a Struct cut before its struct name index
CutRecords ==
    { <<1, 34>>,
      <<1, 34, 7>>,
      <<2, 42>> }

\* single records the checks of the decoder are about
CheckedRecords == BoolRecords \cup DesyncRecords \cup IndexRecords \cup CutRecords

\* any pieces in any order; and objects as the client writes them: a
\* property list, None, a second list, None, None, and what follows
PropStreams ==
    {Concat(ps) : ps \in SeqsUpTo(PropPieces, MaxPieces)}
    \cup {Concat(l1) \o <<0>> \o Concat(l2) \o <<0, 0>> \o tail :
            l1 \in SeqsUpTo(PropertyPieces, MaxListLen),
            l2 \in SeqsUpTo(PropertyPieces, MaxListLen),
            tail \in PropTails}
    \cup {Concat(l1) \o rec \o tail :
            l1 \in SeqsUpTo(PropertyPieces, MaxListLen),
            rec \in CheckedRecords,
            tail \in PropTails}

\* parse_properties(data, names, start_offset) is called at 0 or past a byte
PropStartOffsets == {0, 1}

----------------------------------------------------------------------------
(* Property decoder state machine: one turn of the loop per step           *)

PropInit ==
    /\ data \in PropStreams
    /\ names = PropNames
    /\ start \in PropStartOffsets
    /\ pos = start
    /\ op = "parse_properties"
    /\ ret = NoRet
    /\ pkg_pc = "none"
    /\ hdr = NoHeader
    /\ imports = <<>>
    /\ exports = <<>>
    /\ high = 0
    /\ prop_pc = "loop"
    /\ stop = ""
    /\ properties = <<>>
    /\ prop_start = -1
    /\ lookups = {}
    /\ consecutive_nones = 0
    /\ current_list = 0
    /\ trace = <<>>
    /\ NoMesh

\* the loop ends: break, the loop condition, or an exception
PropStop(why, nones) ==
    /\ prop_pc' = "done"
    /\ stop' = why
    /\ consecutive_nones' = nones
    /\ UNCHANGED <<pos, properties, current_list>>

\* while offset < len(data) - 1 and len(properties) < 200: is false
PropLoopExit ==
    /\ prop_pc = "loop"
    /\ ~(pos < Len(data) - 1 /\ Len(properties) < MaxProperties)
    /\ PropStop(IF pos < Len(data) - 1 THEN "limit" ELSE "end_of_data", consecutive_nones)
    /\ UNCHANGED <<trace, prop_start, lookups>>
    /\ UNCHANGED <<data, op, start, ret>>
    /\ UNCHANGED pkgVars
    /\ UNCHANGED meshVars

\* one turn of the loop
PropLoopTurn ==
    /\ prop_pc = "loop"
    /\ pos < Len(data) - 1 /\ Len(properties) < MaxProperties
    /\ prop_start' = pos
    /\ LET idx == read_compact_index_at(data, pos)
       IN  IF ~idx.ok
           THEN PropStop("IndexError", consecutive_nones) /\ UNCHANGED <<trace, lookups>>
           ELSE IF ~InRange(idx.val, names)
           THEN PropStop("bad_name_index", consecutive_nones) /\ UNCHANGED <<trace, lookups>>
           ELSE IF names_getitem(names, idx.val) = Str_None
           THEN /\ lookups' = lookups \cup {idx.val}
                /\ IF IsSecondNone(consecutive_nones + 1)
                   THEN /\ PropStop("double_none", consecutive_nones + 1)
                        /\ trace' = Append(trace, "None")
                   ELSE /\ consecutive_nones' = consecutive_nones + 1
                        /\ pos' = idx.pos
                        /\ current_list' = current_list + 1
                        /\ trace' = Append(trace, "None")
                        /\ UNCHANGED <<prop_pc, stop, properties>>
           ELSE LET r == decode_property(data, idx.pos, names_getitem(names, idx.val),
                                         names, current_list)
                IN  /\ lookups' = lookups \cup {idx.val} \cup r.looked_up
                    /\ IF r.outcome = "append"
                       THEN /\ properties' = Append(properties, r.prop)
                            /\ pos' = r.pos
                            /\ consecutive_nones' = 0
                            /\ trace' = Append(trace, "prop")
                            /\ UNCHANGED <<prop_pc, stop, current_list>>
                       ELSE /\ PropStop(IF r.outcome = "break" THEN "desync"
                                                               ELSE "IndexError", 0)
                            /\ UNCHANGED trace
    /\ UNCHANGED <<data, op, start, ret>>
    /\ UNCHANGED pkgVars
    /\ UNCHANGED meshVars

\* find_none_terminator(data, names) on the buffer parse_properties decoded
FindNoneTerminator ==
    /\ prop_pc = "done"
    /\ op = "parse_properties"
    /\ op' = "find_none_terminator"
    /\ LET r == find_none_terminator(data, names)
       IN  ret' = [NoRet EXCEPT !.ok = r.ok, !.end = r.pos]
    /\ UNCHANGED <<data, pos, start>>
    /\ UNCHANGED propVars
    /\ UNCHANGED pkgVars
    /\ UNCHANGED meshVars

PropNext ==
    \/ PropLoopExit
    \/ PropLoopTurn
    \/ FindNoneTerminator

PropSpec == PropInit /\ [][PropNext]_vars

----------------------------------------------------------------------------
(* Properties of the property decoder                                      *)

\* the number of "None" among the first n entries of the history
RECURSIVE NonesIn(_, _)
NonesIn(t, n) == IF n = 0 THEN 0 ELSE NonesIn(t, n - 1) + (IF t[n] = "None" THEN 1 ELSE 0)

\* the place in the history of the k-th emitted property
RECURSIVE PlaceOfProp(_, _, _)
PlaceOfProp(t, k, from) ==
    IF t[from] = "prop"
    THEN (IF k = 1 THEN from ELSE PlaceOfProp(t, k - 1, from + 1))
    ELSE PlaceOfProp(t, k, from + 1)

\* C10: a None terminator ends decoding only as the second of two
\* consecutive ones, and then nothing is decoded after it, whatever bytes
\* follow; after a single None the next list is decoded and counted; every
\* emitted property has as list_index the number of None terminators
\* decoded before it.
C10_DoubleNoneTermination ==
    /\ \A k \in 1..Len(properties) :
          properties[k].list_index = NonesIn(trace, PlaceOfProp(trace, k, 1))
    /\ \A i \in 1..(Len(trace) - 1) :
          (trace[i] = "None" /\ trace[i + 1] = "None") =>
              (i + 1 = Len(trace) /\ prop_pc = "done" /\ stop = "double_none")
    /\ (stop = "double_none" =>
            (Len(trace) >= 2 /\ trace[Len(trace)] = "None" /\ trace[Len(trace) - 1] = "None"))
    /\ current_list = NonesIn(trace, Len(trace)) - (IF stop = "double_none" THEN 1 ELSE 0)

\* a property of the first list, one None, a property of the second list,
\* two Nones, and bytes left in the buffer
C10_Witness ==
    /\ stop = "double_none"
    /\ Len(properties) = 2
    /\ properties[1].list_index = 0
    /\ properties[2].list_index = 1
    /\ pos < Len(data) - 1

\* a turn of the loop has been taken; its record started at prop_start
TurnTaken == prop_start >= 0

\* the record at offset p: its name index, and whether a name that is not
\* "None" and an info byte are there
RecordName(p) == read_compact_index_at(data, p)
RecordHasInfo(p) ==
    /\ p >= 0
    /\ RecordName(p).ok
    /\ InRange(RecordName(p).val, names)
    /\ safe_name(names, RecordName(p).val) # Str_None
    /\ RecordName(p).pos < Len(data)
RecordPropName(p) == safe_name(names, RecordName(p).val)
RecordInfo(p) == data[RecordName(p).pos + 1]
RecordType(p) == RecordInfo(p) % 16
RecordSizeClass(p) == (RecordInfo(p) \div 16) % 8
RecordFlag(p) == (RecordInfo(p) \div 128) % 2

\* where the record header ends: name index, info byte, size field
RecordHeaderEnd(p) ==
    RecordName(p).pos + 1 + Len(SizeField(RecordSizeClass(p), 0))

\* the size the header declares: fixed by the size class, or its size field
RecordDeclaredSize(p) ==
    LET q == RecordName(p).pos + 1
    IN  CASE RecordSizeClass(p) = 0 -> 1
          [] RecordSizeClass(p) = 1 -> 2
          [] RecordSizeClass(p) = 2 -> 4
          [] RecordSizeClass(p) = 3 -> 12
          [] RecordSizeClass(p) = 4 -> 16
          [] RecordSizeClass(p) = 5 -> data[q + 1]
          [] RecordSizeClass(p) = 6 -> data[q + 1] + 256 * data[q + 2]
          [] RecordSizeClass(p) = 7 -> U32Capped(SubSeq(data, q + 1, q + 4))

\* the last turn ended the decoding without emitting a property
HaltedAtRecord == prop_pc = "done" /\ stop \in {"desync", "bad_name_index", "IndexError"}

LastProperty == properties[Len(properties)]

\* C11: a record of type 3 (Bool), whatever its size class, is decoded as a
\* property whose value is the array-flag bit and whose payload is empty:
\* nothing is consumed after the record header (no payload, no array-index
\* byte) and decoding goes on from there.
C11_BoolZeroPayload ==
    (TurnTaken /\ RecordHasInfo(prop_start) /\ RecordType(prop_start) = 3
        /\ RecordHeaderEnd(prop_start) <= Len(data)) =>
        /\ ~HaltedAtRecord
        /\ Len(properties) >= 1
        /\ LastProperty.type = "Bool"
        /\ LastProperty.size = 0
        /\ LastProperty.value_hex = <<>>
        /\ LastProperty.array_index = 0
        /\ LastProperty.bool_value = (RecordFlag(prop_start) = 1)
        /\ pos = RecordHeaderEnd(prop_start)

\* a turn of the loop is about to decode the record at pos
TurnAt(p) == prop_pc = "loop" /\ pos = p /\ p < Len(data) - 1 /\ Len(properties) < MaxProperties

\* the declared type and size contradict the fixed-size table
ViolatesFixedSize(p) ==
    /\ RecordType(p) \in DOMAIN EXPECTED_SIZES
    /\ RecordDeclaredSize(p) # EXPECTED_SIZES[RecordType(p)]

\* the name of the record can never carry its type, by the tables given
NameExcludesType(p, strings, nms, arrays) ==
    \/ RecordType(p) \in {7, 13} /\ RecordPropName(p) \in strings
    \/ RecordType(p) = 6 /\ RecordPropName(p) \in nms
    \/ RecordType(p) = 9 /\ RecordPropName(p) \in arrays

\* the turn halts the decoding at its record: no property is emitted for
\* it, the properties decoded before it are what is returned
HaltsAtRecord == prop_pc' = "done" /\ stop' = "desync" /\ properties' = properties

\* C12: a record whose declared type and size violate the fixed-size
\* table, whose type is Map or FixedArray, or whose name is in the
\* never-String, never-Name or never-Array set with that type, halts the
\* decoding: no property is emitted for it and the properties decoded
\* before it are returned intact.
C12_DesyncHalts ==
    [][(TurnAt(pos) /\ RecordHasInfo(pos) /\ RecordHeaderEnd(pos) <= Len(data)
          /\ (\/ ViolatesFixedSize(pos)
              \/ RecordType(pos) \in INVALID_TYPES
              \/ NameExcludesType(pos, NON_STRING_PROP_NAMES, NON_NAME_PROP_NAMES,
                                  NON_ARRAY_PROP_NAMES)))
        => HaltsAtRecord]_vars

\* C12 without the never-Array set, which the decoder does not consult
C12_EnforcedChecksHalt ==
    [][(TurnAt(pos) /\ RecordHasInfo(pos) /\ RecordHeaderEnd(pos) <= Len(data)
          /\ (\/ ViolatesFixedSize(pos)
              \/ RecordType(pos) \in INVALID_TYPES
              \/ NameExcludesType(pos, NON_STRING_PROP_NAMES, NON_NAME_PROP_NAMES, {})))
        => HaltsAtRecord]_vars

\* v is an index into the name table: 0 <= v < len(names)
IsNameIndex(v) == ~v.neg /\ v.hi = 0 /\ v.lo < Len(names)

\* C13: the name table is only ever indexed with i where
\* 0 <= i < len(names) (property name, struct name, Name value); a
\* property-name index outside that range stops the decoding of the list
\* (parse_properties ends, find_none_terminator fails) and is not used.
C13_NameIndexChecked ==
    /\ \A v \in lookups : IsNameIndex(v)
    /\ (TurnTaken /\ RecordName(prop_start).ok /\ ~IsNameIndex(RecordName(prop_start).val))
            => (prop_pc = "done" /\ stop = "bad_name_index")
    /\ (op = "find_none_terminator" /\ RecordName(0).ok /\ ~IsNameIndex(RecordName(0).val))
            => ~ret.ok

\* a property was decoded, its name looked up, and the negative name index
\* that followed ended the decoding
C13_Witness ==
    /\ stop = "bad_name_index"
    /\ Len(properties) = 1
    /\ lookups # {}
    /\ RecordName(prop_start).val.neg

----------------------------------------------------------------------------
(* parse_chunk: find_property_start, then parse_properties from its result *)

\* pieces of an export buffer: the terminator; an Int, a Struct and an
\* array element Byte property; an Int named "Mesh1"; a name index outside
\* the table
StartPieces ==
    { <<0>>,
      <<1, 34, 7, 0, 0, 0>>,
      <<2, 42, 4, 1, 2, 3, 4>>,
      <<1, 129, 2, 9>>,
      <<5, 34, 1, 0, 0, 0>>,
      <<9>> }

\* what follows the pieces; <<65, 0>> is the name index 1 in two bytes
StartTails == PropTails \cup {<<65, 0>>}

\* most pieces of a generated export buffer
MaxStartPieces == 2

\* the bytes before the property list: none, or a class reference (0 or
\* 255) and padding, up to the width of the search window
HeaderLens == {2, 10, DefaultMaxSearch - 1, DefaultMaxSearch}
Headers ==
    {<<>>} \cup {<<c>> \o [i \in 1..(n - 1) |-> 255] : c \in {0, 255}, n \in HeaderLens}

StartStreams ==
    {h \o Concat(ps) \o tail :
        h \in Headers, ps \in SeqsUpTo(StartPieces, MaxStartPieces), tail \in StartTails}

StartInit ==
    /\ data \in StartStreams
    /\ names = PropNames
    /\ start = -1
    /\ pos = 0
    /\ op = "parse_chunk"
    /\ ret = NoRet
    /\ pkg_pc = "none"
    /\ hdr = NoHeader
    /\ imports = <<>>
    /\ exports = <<>>
    /\ high = 0
    /\ prop_pc = "find"
    /\ stop = ""
    /\ properties = <<>>
    /\ prop_start = -1
    /\ lookups = {}
    /\ consecutive_nones = 0
    /\ current_list = 0
    /\ trace = <<>>
    /\ NoMesh

\* parse_chunk, one export: "if not data or len(data) < 2: continue",
\* start_offset = find_property_start(data, pkg.names),
\* "if start_offset < 0: ... continue", else parse_properties from there;
\* an exception of find_property_start is not caught
FindPropertyStart ==
    /\ prop_pc = "find"
    /\ LET r == find_property_start(data, names, DefaultMaxSearch)
       IN  IF Len(data) < 2
           THEN prop_pc' = "done" /\ stop' = "skipped" /\ UNCHANGED <<start, pos>>
           ELSE IF r.raised
           THEN prop_pc' = "done" /\ stop' = "exception" /\ UNCHANGED <<start, pos>>
           ELSE IF r.offset < 0
           THEN prop_pc' = "done" /\ stop' = "failed" /\ start' = r.offset /\ UNCHANGED pos
           ELSE prop_pc' = "loop" /\ start' = r.offset /\ pos' = r.offset /\ UNCHANGED stop
    /\ UNCHANGED <<properties, prop_start, lookups, consecutive_nones, current_list, trace>>
    /\ UNCHANGED <<data, op, ret>>
    /\ UNCHANGED pkgVars
    /\ UNCHANGED meshVars

StartNext ==
    \/ FindPropertyStart
    \/ PropLoopExit
    \/ PropLoopTurn

StartSpec == StartInit /\ [][StartNext]_vars

\* the candidate offsets: below max_search and below len(data) - 2
SearchWindow ==
    {o \in 0..Len(data) : o < DefaultMaxSearch /\ o < Len(data) - 2}

\* the score of the chain that starts at offset o
ChainScore(o) == score_property_chain(data, names, o).score

\* the first offset of the window with the highest score
IsBestCandidate(o) ==
    /\ o \in SearchWindow
    /\ \A c \in SearchWindow : ChainScore(c) <= ChainScore(o)

\* what find_property_start returned is -1 exactly when no offset of the
\* search window scores above zero, and else an offset of the window no
\* other offset of the window outscores
ReturnedBestOrAbsent ==
    /\ start = -1 \/ IsBestCandidate(start)
    /\ (\A c \in SearchWindow : ChainScore(c) <= 0) <=> start = -1

\* C14: find_property_start raises nothing for any buffer; it returns -1
\* exactly when no offset of the search window scores above zero, and else
\* an offset of the window no other offset of the window outscores
C14_FindPropertyStart ==
    (prop_pc # "find" /\ stop # "skipped") =>
        /\ stop # "exception"
        /\ ReturnedBestOrAbsent

\* C14, for the calls that return: the result is as C14 says
C14_ReturnedResult ==
    (prop_pc # "find" /\ stop \notin {"skipped", "exception"}) => ReturnedBestOrAbsent

\* find_property_start raised: the compact index at a candidate offset, or
\* behind a clean chain from it, is cut by the end of the buffer
C14_Raised ==
    /\ stop = "exception"
    /\ \E c \in SearchWindow : score_property_chain(data, names, c).raised

\* a list found behind ten or more bytes, ahead of a candidate that scores
\* above zero but lower, and one that scores below zero
C14_Witness ==
    /\ prop_pc # "find"
    /\ start >= 10
    /\ \E c \in SearchWindow : ChainScore(c) > 0 /\ ChainScore(c) < ChainScore(start)
    /\ \E c \in SearchWindow : ChainScore(c) < 0

\* nothing found although an offset beyond the window starts a clean chain
C14_WitnessAbsent ==
    /\ stop = "failed"
    /\ start = -1
    /\ Len(data) > DefaultMaxSearch
    /\ ChainScore(DefaultMaxSearch) > 0

----------------------------------------------------------------------------
(* scripts/lib/staticmesh_construct.py : parse_staticmesh                  *)

\* struct.unpack('<i', data[off:off+4])[0] where the four bytes exist
S32(d, off) ==
    d[off + 1] + 256 * d[off + 2] + 65536 * d[off + 3]
    + 16777216 * (IF d[off + 4] >= 128 THEN d[off + 4] - 256 ELSE d[off + 4])

\* data[off:off+n] has n bytes, so struct.unpack does not raise
HasBytes(d, off, n) == off >= 0 /\ off + n <= Len(d)

SetMin(S) == CHOOSE x \in S : \A y \in S : x <= y

v_anchors == {60482, 60484, 11, 12, 128, 129}

\* lines 273-297: InternalVersion 11 or 12 at prop_end + 41, else a scan of
\* the first 2000 offsets; reading the section count may raise
LegacyHit(d, o) == o + 45 <= Len(d) /\ S32(d, o + 41) \in {11, 12}
LegacyDecides(d, o) ==
    LegacyHit(d, o) /\ (~HasBytes(d, o + 45, 4)
                        \/ (S32(d, o + 45) >= 0 /\ S32(d, o + 45) < 200))
legacy_core_scan(d, prop_end) ==
    IF Len(d) >= prop_end + 45 /\ S32(d, prop_end + 41) \in {11, 12}
    THEN [found |-> TRUE, raised |-> FALSE, heuristic |-> FALSE]
    ELSE LET D == {o \in 0..(Min(Len(d), 2000) - 1) : LegacyDecides(d, o)}
         IN  IF D = {} THEN [found |-> FALSE, raised |-> FALSE, heuristic |-> FALSE]
             ELSE IF ~HasBytes(d, SetMin(D) + 45, 4)
                  THEN [found |-> FALSE, raised |-> TRUE, heuristic |-> FALSE]
             ELSE [found |-> TRUE, raised |-> FALSE, heuristic |-> TRUE]

\* lines 307-314: a known version at prop_end + 40 or prop_end + 41
expected_anchor(d, prop_end) ==
    IF \E offset \in {40, 41} :
            Len(d) >= prop_end + offset + 4 /\ S32(d, prop_end + offset) \in v_anchors
    THEN prop_end ELSE -1

\* lines 316-331: the first i below the search limit with a known version
\* at i + 40 or i + 41 and a section count in 0..199 after it
AnchorAt(d, i, v_off) ==
    S32(d, i + v_off) \in v_anchors
    /\ S32(d, i + v_off + 4) >= 0 /\ S32(d, i + v_off + 4) < 200
brute_force_anchor(d) ==
    LET hits == {i \in 0..(Min(Len(d) - 49, 2048) - 1) :
                    AnchorAt(d, i, 40) \/ AnchorAt(d, i, 41)}
    IN  IF hits = {} THEN -1 ELSE SetMin(hits)

\* lines 346-356: the first section size whose probe finds vertex_count 0
\* and color_count 0; c_cnt is read at probe_pos + 8, checked or not
SectionSizes == <<14, 24, 16, 20, 28>>
ProbeDecides(d, probe_pos) ==
    probe_pos + 8 <= Len(d)
    /\ (~HasBytes(d, probe_pos + 8, 4)
        \/ (S32(d, probe_pos) = 0 /\ S32(d, probe_pos + 8) = 0))
probe_section_size(d, first_section, sec_count) ==
    LET K == {k \in 1..Len(SectionSizes) :
                ProbeDecides(d, first_section + sec_count * SectionSizes[k])}
    IN  IF K = {} THEN [ok |-> TRUE, section_size |-> 14]
        ELSE IF ~HasBytes(d, first_section + sec_count * SectionSizes[SetMin(K)] + 8, 4)
             THEN [ok |-> FALSE, section_size |-> 14]
        ELSE [ok |-> TRUE, section_size |-> SectionSizes[SetMin(K)]]

\* data.find(b'\x00' * 6, search_start), or -1
find_padding(d, search_start) ==
    LET hits == {q \in search_start..(Len(d) - 6) : \A k \in 1..6 : d[q + k] = 0}
    IN  IF search_start < Len(d) /\ hits # {} THEN SetMin(hits) ELSE -1

\* Int32ul.parse_stream / Int32sl.parse_stream at tell: StreamError if the
\* stream has fewer than four bytes left
stream_int(stream, tell) ==
    [ok |-> tell + 4 <= Len(stream),
     val |-> IF tell + 4 <= Len(stream) THEN S32(stream, tell) ELSE 0,
     pos |-> tell + 4]

NoLod == [version |-> 0, section_count |-> 0, vertex_count |-> 0,
          vertices_raw_len |-> 0, index_count |-> 0]
LodErr == [ok |-> FALSE, pos |-> 0, added |-> 0, lod |-> NoLod]

\* from the vertices to lods.append: vertices_raw, PostVertexHeader, indices.
\* The counts are unsigned (negative here: 2^31 and more).  A read of the
\* vertices that the stream cuts short leaves nothing for the header that
\* follows, whose parse then raises.
parse_lod_body(stream, tell, version, section_count, vertex_count, added) ==
    IF vertex_count < 0 \/ vertex_count > (Len(stream) - tell) \div 56 THEN LodErr
    ELSE Bind(stream_int(stream, tell + vertex_count * 56 + 20), LAMBDA ic :
            IF ~ic.ok THEN LodErr
            ELSE IF ic.val > 1000000 \/ ic.val < 0 THEN LodErr
            ELSE IF ic.pos + ic.val * 2 > Len(stream) THEN LodErr
            ELSE [ok |-> TRUE, pos |-> ic.pos + ic.val * 2,
                  added |-> added + vertex_count * 56 + 24 + ic.val * 2,
                  lod |-> [version |-> version, section_count |-> section_count,
                           vertex_count |-> vertex_count,
                           vertices_raw_len |-> vertex_count * 56,
                           index_count |-> ic.val]])

\* lod_version 1 with sections: the sections are skipped (a read the stream
\* cuts short leaves nothing for the vertex count, whose parse then raises),
\* the vertex count follows them; above 500000 it is taken as 0
parse_lod_extended(stream, tell, sec_count) ==
    IF sec_count < 0 \/ sec_count > (Len(stream) - tell) \div 20 THEN LodErr
    ELSE Bind(stream_int(stream, tell + sec_count * 20), LAMBDA vc :
            IF ~vc.ok THEN LodErr
            ELSE parse_lod_body(stream, vc.pos, 1, sec_count,
                                IF vc.val > 500000 \/ vc.val < 0 THEN 0 ELSE vc.val,
                                12 + sec_count * 20 + 4))

\* one turn of the LOD loop: the 12-byte header, by lod_version
parse_lod(stream, tell, lod_version) ==
    IF tell + 12 > Len(stream) THEN LodErr
    ELSE IF lod_version = 1 /\ S32(stream, tell) # 0
         THEN parse_lod_extended(stream, tell + 12, S32(stream, tell))
    ELSE parse_lod_body(stream, tell + 12, lod_version, 0, S32(stream, tell + 8), 12)

----------------------------------------------------------------------------
(* Generated StaticMesh exports                                            *)

Fill(n, b) == [i \in 1..n |-> b]

MaxLods == 2
MaxTail == 2

\* one LOD: 12 header bytes (with lsec sections of 20 bytes and a vertex
\* count after them if lod_version is 1 and lsec > 0), vc vertices of 56
\* bytes, the 24-byte post-vertex header ending in ic, ic indices
LodBytes(lodv, lsec, vc, ic) ==
    (IF lodv = 1 /\ lsec > 0
     THEN LE32(lsec) \o LE32(1) \o LE32(1) \o Fill(lsec * 20, 1) \o LE32(vc)
     ELSE LE32(0) \o LE32(1) \o LE32(vc))
    \o Fill(vc * 56, 3)
    \o LE32(8) \o LE32(0) \o LE32(4) \o LE32(0) \o LE32(4) \o LE32(ic)
    \o Fill(ic * 2, 1)

\* the bytes up to the sync padding: properties, bounds, InternalVersion,
\* section count, sections, empty vertex and colour streams
MeshHead(m) ==
    m.props \o Fill(m.box, 0) \o LE32(m.version) \o LE32(m.nsec)
    \o Fill(m.nsec * m.secsize, 1)
    \o LE32(0) \o <<1, 1, 1, 1>> \o LE32(0) \o <<1, 1, 1, 1>> \o <<1, 1>>

\* an export: head, padding, skip_pos (absolute, so with the export's
\* serial_offset in it), m.raw bytes of raw triangles (count and payload)
\* that skip_pos skips, post-skip header, LODs, tail
MeshExport(m) ==
    LET head == MeshHead(m)
        raw == Fill(m.raw, 1)
        post == Len(head) + 10 + Len(raw)
        body == LE32(1) \o LE32(1) \o LE32(m.lodv) \o LE32(m.nlod)
                \o Concat([i \in 1..m.nlod |-> LodBytes(m.lodv, m.lsec, m.vc, m.ic)])
                \o Fill(m.tail, 2)
        total == post + Len(body)
        skip_pos == CASE m.skip = "exact" -> m.so + post
                      [] m.skip = "zero" -> 0
                      [] m.skip = "beyond" -> m.so + total + 5
    IN  [data |-> head \o Fill(6, 0) \o LE32(skip_pos) \o raw \o body,
         serial_offset |-> m.so]

MeshShapes ==
    [props : {<<0>>, <<1, 1, 9, 0>>},
     box : {40, 41},
     version : {11, 128},
     nsec : {0, 1},
     secsize : {14, 24},
     raw : {0, 4},
     skip : {"exact"},
     so : {0, 64},
     lodv : {0, 1},
     nlod : 0..MaxLods,
     lsec : {0, 1},
     vc : {0, 1},
     ic : {0, 3},
     tail : {0, MaxTail}]

BaseShape ==
    [props |-> <<1, 1, 9, 0>>, box |-> 40, version |-> 128, nsec |-> 1, secsize |-> 14,
     raw |-> 0, skip |-> "exact", so |-> 64, lodv |-> 0, nlod |-> 1, lsec |-> 0,
     vc |-> 1, ic |-> 3, tail |-> 0]

\* exports for the anchor search: a None terminator (so prop_end = 1), gap
\* zero bytes, a version and a section count (or the version alone where
\* cut), perhaps 20 zero bytes and the pair (12, 3), zero bytes after
AnchorShapes ==
    [gap : {39, 40, 41, 42, 60},
     version : {12, 128, 7},
     count : {3, 1000},
     cut : BOOLEAN,
     second : BOOLEAN,
     after : {0, 1, 60}]

AnchorExport(a) ==
    [data |-> <<0>> \o Fill(a.gap, 0) \o LE32(a.version)
              \o (IF a.cut THEN <<>>
                  ELSE LE32(a.count)
                       \o (IF a.second THEN Fill(20, 0) \o LE32(12) \o LE32(3) ELSE <<>>)
                       \o Fill(a.after, 0)),
     serial_offset |-> 0]

\* the ceilings of the LOD loop: "if vertex_count > 500000" and
\* "if index_count > 1000000"
VertexCeiling == 500000
IndexCeiling == 1000000

\* one LOD that holds one vertex and three indices and declares vcd
\* vertices and icd indices
DeclaringLod(lodv, lsec, vcd, icd) ==
    (IF lodv = 1 /\ lsec > 0
     THEN LE32(lsec) \o LE32(1) \o LE32(1) \o Fill(lsec * 20, 1) \o LE32(vcd)
     ELSE LE32(0) \o LE32(1) \o LE32(vcd))
    \o Fill(56, 3)
    \o LE32(8) \o LE32(0) \o LE32(4) \o LE32(0) \o LE32(4) \o LE32(icd)
    \o Fill(6, 1)

\* exports whose one LOD declares counts at and above the ceilings: the
\* base export without LODs, its lod_count made 1, and the LOD
AbsurdShapes ==
    [lodv : {0, 1}, lsec : {0, 1},
     vcd : {1, VertexCeiling + 1}, icd : {3, IndexCeiling, IndexCeiling + 1}]

AbsurdExport(a) ==
    LET e == MeshExport([BaseShape EXCEPT !.nlod = 0, !.lodv = a.lodv])
    IN  [data |-> SubSeq(e.data, 1, Len(e.data) - 4) \o LE32(1)
                  \o DeclaringLod(a.lodv, a.lsec, a.vcd, a.icd),
         serial_offset |-> e.serial_offset]

\* the shapes; the base shape with another skip pointer, an unknown
\* version, a raw triangle payload; the base export cut at every length;
\* the exports for the anchor search and for the ceilings; the base shape
\* with section records of the other widths the probe tries
MeshInputs ==
    {MeshExport(m) : m \in MeshShapes}
    \cup {MeshExport([BaseShape EXCEPT !.secsize = w]) : w \in {16, 20, 28}}
    \cup {MeshExport([BaseShape EXCEPT !.skip = k, !.so = o, !.raw = r, !.version = v]) :
            k \in {"exact", "zero", "beyond"}, o \in {0, 64, 256}, r \in {0, 8},
            v \in {128, 60482, 7}}
    \cup {[data |-> SubSeq(MeshExport(BaseShape).data, 1, cut), serial_offset |-> 64] :
            cut \in 0..Len(MeshExport(BaseShape).data)}
    \cup {AnchorExport(a) : a \in AnchorShapes}
    \cup {AbsurdExport(a) : a \in AbsurdShapes}

----------------------------------------------------------------------------
(* StaticMesh decoder state machine: the steps of parse_staticmesh         *)

MeshInit ==
    /\ \E m \in MeshInputs : data = m.data /\ start = m.serial_offset
    /\ names = PropNames
    /\ pos = 0
    /\ op = "parse_staticmesh"
    /\ ret = NoRet
    /\ pkg_pc = "none"
    /\ hdr = NoHeader
    /\ imports = <<>>
    /\ exports = <<>>
    /\ high = 0
    /\ NoProps
    /\ mesh_pc = "properties"
    /\ result = NewResult(Len(data))
    /\ loc = NoLocals
    /\ lods = <<>>
    /\ NoPipe

\* an exception leaves parse_staticmesh: no result is returned
MeshRaise ==
    /\ mesh_pc' = "raised"
    /\ UNCHANGED <<result, loc, lods, pos>>

\* "return result" with an error status
MeshError(message) ==
    /\ mesh_pc' = "returned"
    /\ result' = [result EXCEPT !.parse_status = "error", !.error_message = message]
    /\ UNCHANGED <<loc, lods, pos>>

MeshFrame ==
    /\ UNCHANGED <<data, op, start, ret>>
    /\ UNCHANGED pkgVars
    /\ UNCHANGED propVars
    /\ UNCHANGED pipeVars

\* Step 1: Parse properties
MeshProperties ==
    /\ mesh_pc = "properties"
    /\ LET r == find_none_terminator(data, names)
       IN  IF ~r.ok THEN MeshRaise
           ELSE /\ mesh_pc' = "legacy_scan"
                /\ loc' = [loc EXCEPT !.prop_end = r.pos]
                /\ result' = [result EXCEPT !.properties_end = r.pos,
                                            !.bytes_parsed = @ + r.pos]
                /\ UNCHANGED <<lods, pos>>
    /\ MeshFrame

\* Step 2, lines 270-297: the first search for InternalVersion
MeshLegacyScan ==
    /\ mesh_pc = "legacy_scan"
    /\ LET r == legacy_core_scan(data, loc.prop_end)
       IN  IF r.raised THEN MeshRaise
           ELSE /\ mesh_pc' = "anchor"
                /\ result' = [result EXCEPT
                                !.uses_heuristics = r.heuristic,
                                !.parse_status = IF r.found THEN @ ELSE "error"]
                /\ UNCHANGED <<loc, lods, pos>>
    /\ MeshFrame

\* Step 2, lines 298-336: the anchor search
MeshAnchor ==
    /\ mesh_pc = "anchor"
    /\ LET expected == expected_anchor(data, loc.prop_end)
           brute == brute_force_anchor(data)
       IN  IF expected # -1
           THEN /\ mesh_pc' = "core"
                /\ loc' = [loc EXCEPT !.core_start = expected]
                /\ UNCHANGED <<result, lods, pos>>
           ELSE IF brute # -1
           THEN /\ mesh_pc' = "core"
                /\ loc' = [loc EXCEPT !.core_start = brute]
                /\ result' = [result EXCEPT !.uses_heuristics = TRUE]
                /\ UNCHANGED <<lods, pos>>
           ELSE MeshError("Could not find StaticMesh core anchor (InternalVersion)")
    /\ MeshFrame

\* lines 338-384: 40 or 41 bytes of bounds, section size, sync padding,
\* skip_pos, core_bytes
MeshCore ==
    /\ mesh_pc = "core"
    /\ LET cs == loc.core_start
           v_off == IF S32(data, cs + 40) \in v_anchors THEN 40 ELSE 41
       IN  IF ~HasBytes(data, cs + v_off + 4, 4) THEN MeshRaise
           ELSE LET sec_count == S32(data, cs + v_off + 4)
                    probe == probe_section_size(data, cs + v_off + 8, sec_count)
                    padding_pos == find_padding(data, cs + v_off + 8
                                                      + sec_count * probe.section_size)
                IN  IF ~probe.ok THEN MeshRaise
                    ELSE IF padding_pos = -1 \/ padding_pos + 10 > Len(data)
                    THEN MeshError("Could not find RawTriangles sync padding")
                    ELSE /\ mesh_pc' = "skip"
                         /\ loc' = [loc EXCEPT
                                !.v_off = v_off, !.sec_count = sec_count,
                                !.section_size = probe.section_size,
                                !.padding_pos = padding_pos,
                                !.skip_pos = S32(data, padding_pos + 6),
                                !.core_bytes = padding_pos + 10 - cs]
                         /\ result' = [result EXCEPT
                                !.bytes_parsed = padding_pos + 10,
                                !.internal_version = S32(data, cs + v_off),
                                !.section_count = sec_count,
                                !.raw_triangles_skip_pos = S32(data, padding_pos + 6)]
                         /\ UNCHANGED <<lods, pos>>
    /\ MeshFrame

\* Step 3: Handle RawTriangles skip
MeshSkip ==
    /\ mesh_pc = "skip"
    /\ LET relative_skip == loc.skip_pos - start
           current_pos == IF loc.skip_pos = 0 THEN loc.core_start + loc.core_bytes
                          ELSE relative_skip
           raw_tri_size == relative_skip - current_pos
       IN  IF loc.skip_pos # 0 /\ (relative_skip < 0 \/ relative_skip > Len(data))
           THEN MeshError("Invalid RawTriangles skip_pos")
           ELSE /\ mesh_pc' = "post_skip"
                /\ loc' = [loc EXCEPT !.relative_skip = relative_skip,
                                      !.current_pos = current_pos]
                /\ result' = IF raw_tri_size > 0
                             THEN [result EXCEPT
                                    !.raw_triangles_payload_size = raw_tri_size,
                                    !.bytes_parsed = @ + raw_tri_size]
                             ELSE result
                /\ UNCHANGED <<lods, pos>>
    /\ MeshFrame

\* post_skip_data = data[relative_skip:], the stream the rest is read from
post_skip_data == PySliceFrom(data, loc.relative_skip)

\* Step 4: Parse post-skip data: physics_ref, auth_key, lod_version, lod_count
MeshPostSkip ==
    /\ mesh_pc = "post_skip"
    /\ IF Len(post_skip_data) < 16 THEN MeshRaise
       ELSE /\ mesh_pc' = "lods"
            /\ pos' = 16
            /\ result' = [result EXCEPT
                            !.bytes_parsed = @ + 16,
                            !.lod_version = S32(post_skip_data, 8),
                            !.lod_count = S32(post_skip_data, 12)]
            /\ UNCHANGED <<loc, lods>>
    /\ MeshFrame

\* Step 5: Parse LOD models, one turn of the loop
MeshLod ==
    /\ mesh_pc = "lods"
    /\ Len(lods) < result.lod_count
    /\ LET r == parse_lod(post_skip_data, pos, result.lod_version)
       IN  IF ~r.ok THEN MeshRaise
           ELSE /\ lods' = Append(lods, r.lod)
                /\ pos' = r.pos
                /\ result' = [result EXCEPT !.bytes_parsed = @ + r.added]
                /\ UNCHANGED <<mesh_pc, loc>>
    /\ MeshFrame

\* bytes.hex(): two lowercase hexadecimal digits per byte
HexDigits == <<48, 49, 50, 51, 52, 53, 54, 55, 56, 57, 97, 98, 99, 100, 101, 102>>
hex(bs) ==
    [k \in 1..(2 * Len(bs)) |->
        IF k % 2 = 1 THEN HexDigits[(bs[(k + 1) \div 2] \div 16) + 1]
        ELSE HexDigits[(bs[k \div 2] % 16) + 1]]

\* Step 6: Capture remaining bytes as unknown; coverage_pct; return
MeshTail ==
    /\ mesh_pc = "lods"
    /\ Len(lods) >= result.lod_count
    /\ LET remaining_pos == loc.relative_skip + pos
           remaining == Len(data) - remaining_pos
           parsed == result.bytes_parsed + (IF remaining > 0 THEN remaining ELSE 0)
       IN  result' = [result EXCEPT
                        !.unknown_regions =
                            IF remaining > 0
                            THEN Append(@, [offset_start |-> remaining_pos,
                                            offset_end |-> Len(data),
                                            size |-> remaining,
                                            raw_hex |-> hex(PySliceFrom(data, remaining_pos))])
                            ELSE @,
                        !.bytes_unknown = IF remaining > 0 THEN remaining ELSE @,
                        !.bytes_parsed = parsed,
                        !.coverage_pct = [num |-> parsed * 100, den |-> result.bytes_total]]
    /\ mesh_pc' = "returned"
    /\ UNCHANGED <<loc, lods, pos>>
    /\ MeshFrame

MeshNext ==
    \/ MeshProperties
    \/ MeshLegacyScan
    \/ MeshAnchor
    \/ MeshCore
    \/ MeshSkip
    \/ MeshPostSkip
    \/ MeshLod
    \/ MeshTail

MeshSpec == MeshInit /\ [][MeshNext]_vars

----------------------------------------------------------------------------
(* Properties of the StaticMesh decoder                                    *)

\* parse_staticmesh returned a result and no step gave it an error status
MeshSucceeded == mesh_pc = "returned" /\ result.parse_status # "error"

\* C1: a successfully parsed export has
\* bytes_parsed + bytes_unknown = bytes_total, the length of the export
\* buffer, and coverage_pct = 100 * bytes_parsed / bytes_total.
C1_CoverageAccounting ==
    MeshSucceeded =>
        /\ result.bytes_total = Len(data)
        /\ result.bytes_parsed + result.bytes_unknown = result.bytes_total
        /\ result.coverage_pct.num * result.bytes_total
               = 100 * result.bytes_parsed * result.coverage_pct.den

\* a known version followed by a section count the search accepts, at p
ValidPairAt(p) ==
    /\ HasBytes(data, p, 8)
    /\ S32(data, p) \in v_anchors
    /\ S32(data, p + 4) >= 0 /\ S32(data, p + 4) < 200

\* the places of the buffer that hold such a pair
ValidPairs == {p \in 0..Len(data) : ValidPairAt(p)}

\* the places the anchor search reads a version at: 40 and 41 bytes behind
\* the property block, and behind every offset of the brute-force search
SearchedPlaces ==
    {loc.prop_end + 40, loc.prop_end + 41}
    \cup {i + v_off : i \in 0..(Min(Len(data) - 49, 2048) - 1), v_off \in {40, 41}}

\* a known version at one of the two fixed offsets
VersionAtFixedOffset ==
    \E offset \in {40, 41} :
        /\ HasBytes(data, loc.prop_end + offset, 4)
        /\ S32(data, loc.prop_end + offset) \in v_anchors

\* the property block was found and the anchor search is over
AnchorDecided ==
    loc.prop_end >= 0 /\ mesh_pc \notin {"properties", "legacy_scan", "anchor"}

\* an exception left the search for the version (lines 273-297)
RaisedInAnchorSearch ==
    mesh_pc = "raised" /\ loc.prop_end >= 0 /\ loc.core_start = -1

\* where the located core has its version: "Detect if we used 40 or 41"
CoreVersionPlace ==
    loc.core_start + (IF S32(data, loc.core_start + 40) \in v_anchors THEN 40 ELSE 41)

AnchorNotFound ==
    /\ mesh_pc = "returned"
    /\ loc.core_start = -1
    /\ result.parse_status = "error"
    /\ result.error_message = "Could not find StaticMesh core anchor (InternalVersion)"

\* the one pair is where the core is located; no pair is an error result
AnchorOutcome ==
    /\ (\E p \in SearchedPlaces : ValidPairs = {p}) =>
            /\ loc.core_start # -1
            /\ ValidPairs = {CoreVersionPlace}
    /\ ValidPairs = {} => AnchorNotFound

\* C15: with a valid (version, section count) pair at exactly one place of
\* the search window and nowhere else the core is located at that place;
\* with no such pair anywhere parse_staticmesh returns parse_status
\* "error" with the anchor message; no exception, no other offset
C15_AnchorDeterminism ==
    AnchorDecided => (~RaisedInAnchorSearch /\ AnchorOutcome)

\* C15, where neither fixed offset holds a known version and the search
\* raised nothing
C15_BruteForceDeterminism ==
    (AnchorDecided /\ ~VersionAtFixedOffset /\ ~RaisedInAnchorSearch) => AnchorOutcome

\* the core is located by the brute-force search at the one valid pair
C15_LocatedByBruteForce ==
    /\ AnchorDecided
    /\ ~VersionAtFixedOffset
    /\ loc.core_start # -1
    /\ ValidPairs = {CoreVersionPlace}

\* a known version at a fixed offset with no plausible section count is
\* taken as the core although the one valid pair is elsewhere
C15_LocatedAtLoneVersion ==
    /\ AnchorDecided
    /\ loc.core_start = loc.prop_end
    /\ \E p \in SearchedPlaces : ValidPairs = {p} /\ p # CoreVersionPlace

\* a known version and a plausible section count at a fixed offset
FixedOffsetQualifies ==
    \E offset \in {40, 41} : ValidPairAt(loc.prop_end + offset)

\* the core was located, at a fixed offset (the fixed offsets come first)
\* or by the brute-force search
CoreLocated == AnchorDecided /\ loc.core_start # -1
LocatedAtFixedOffset == CoreLocated /\ VersionAtFixedOffset
LocatedByBruteForce == CoreLocated /\ ~VersionAtFixedOffset

\* C20: the anchor at prop_end + 40 or prop_end + 41 is accepted only when
\* a known version is followed by a section count in the plausible range
\* there; uses_heuristics is true exactly when the anchor was found by the
\* brute-force search, and false whenever a fixed offset is used
C20_FixedOffsetAndHeuristics ==
    (AnchorDecided /\ ~RaisedInAnchorSearch) =>
        /\ LocatedAtFixedOffset => FixedOffsetQualifies
        /\ result.uses_heuristics <=> LocatedByBruteForce

\* C20, the part that holds: an anchor found by the brute-force search is
\* recorded as heuristic
C20_BruteForceIsHeuristic ==
    LocatedByBruteForce => result.uses_heuristics

\* a fixed offset is used although no plausible section count follows
C20_FixedWithoutCount ==
    LocatedAtFixedOffset /\ ~FixedOffsetQualifies

\* a fixed offset with a valid pair is used and uses_heuristics is true
C20_FixedButHeuristic ==
    LocatedAtFixedOffset /\ FixedOffsetQualifies /\ result.uses_heuristics

\* "return result" with parse_status "error" and a message
ErrorReturned ==
    /\ mesh_pc = "returned"
    /\ result.parse_status = "error"
    /\ result.error_message # "unset"

\* neither the fixed offsets nor the brute-force search find an anchor
AnchorMissing ==
    /\ loc.prop_end >= 0
    /\ expected_anchor(data, loc.prop_end) = -1
    /\ brute_force_anchor(data) = -1

\* skip_pos names a place before or behind the export buffer
SkipOutside ==
    loc.skip_pos # 0 /\ (loc.skip_pos - start < 0 \/ loc.skip_pos - start > Len(data))

\* an unsigned 32-bit count above a ceiling (negative here: 2^31 and more)
Above(count, ceiling) == count < 0 \/ count > ceiling

\* the LOD at pos declares its vertex count at header_end - 4
LodHeaderEnd ==
    IF result.lod_version = 1 /\ HasBytes(post_skip_data, pos, 4)
       /\ S32(post_skip_data, pos) > 0
    THEN pos + 12 + S32(post_skip_data, pos) * 20 + 4
    ELSE pos + 12

\* the LOD the next turn of the loop reads declares a vertex count above
\* the ceiling, or, behind vertices that are there, such an index count
AbsurdVertexCount ==
    /\ HasBytes(post_skip_data, LodHeaderEnd - 4, 4)
    /\ Above(S32(post_skip_data, LodHeaderEnd - 4), VertexCeiling)
AbsurdIndexCount ==
    /\ HasBytes(post_skip_data, LodHeaderEnd - 4, 4)
    /\ ~Above(S32(post_skip_data, LodHeaderEnd - 4), VertexCeiling)
    /\ LET ic == LodHeaderEnd + S32(post_skip_data, LodHeaderEnd - 4) * 56 + 20
       IN  HasBytes(post_skip_data, ic, 4) /\ Above(S32(post_skip_data, ic), IndexCeiling)

\* the three failures, each before the step that meets it
MeetsMissingAnchor == mesh_pc \in {"legacy_scan", "anchor"} /\ AnchorMissing
MeetsSkipOutside == mesh_pc = "skip" /\ SkipOutside
MeetsAbsurdCount ==
    /\ mesh_pc = "lods"
    /\ Len(lods) < result.lod_count
    /\ AbsurdVertexCount \/ AbsurdIndexCount

\* C16: no anchor, a skip pointer outside the buffer and a LOD vertex or
\* index count above the ceiling each end parse_staticmesh with a returned
\* result of parse_status "error" and a message: nothing is raised and
\* decoding does not go on
C16_FailuresAreErrorResults ==
    [][/\ MeetsMissingAnchor => (mesh_pc' = "anchor" \/ ErrorReturned')
       /\ MeetsSkipOutside => ErrorReturned'
       /\ MeetsAbsurdCount => ErrorReturned']_vars

\* C16, the failures that are reported as the claim says: no anchor, once
\* the first scan has raised nothing, and a skip pointer outside the buffer
C16_AnchorAndSkipErrors ==
    [][/\ (mesh_pc = "anchor" /\ AnchorMissing) => ErrorReturned'
       /\ MeetsSkipOutside => ErrorReturned']_vars

\* an index count above the ceiling was met and an exception came of it
C16_AbsurdIndexRaised ==
    /\ mesh_pc = "raised"
    /\ loc.relative_skip > 0
    /\ Len(lods) < result.lod_count
    /\ AbsurdIndexCount

\* a skip pointer outside the buffer was reported
C16_SkipOutsideReported ==
    ErrorReturned /\ SkipOutside

\* a missing anchor was reported
C16_MissingAnchorReported ==
    ErrorReturned /\ AnchorMissing /\ loc.core_start = -1

----------------------------------------------------------------------------
(* scripts/extractors/staticmesh_pipeline.py : parse_staticmesh_file       *)

Str_StaticMesh == <<83, 116, 97, 116, 105, 99, 77, 101, 115, 104>>
Str_Texture == <<84, 101, 120, 116, 117, 114, 101>>

\* ParsedMesh(...) as far as the export, the LOD and the accounting go
ParsedMesh(exp, lod_index, vertices, indices, res, parse_status, error_message) ==
    [name |-> exp.object_name, export_index |-> exp.index, lod_index |-> lod_index,
     vertices |-> vertices, indices |-> indices,
     bytes_total |-> res.bytes_total, bytes_parsed |-> res.bytes_parsed,
     bytes_unknown |-> res.bytes_unknown, uses_heuristics |-> res.uses_heuristics,
     parse_status |-> parse_status, error_message |-> error_message]

\* a bug that lets the exception of an export pass without a result
mesh_results_uncaught(exp, mpc, res, lds) ==
    IF mpc = "raised" THEN <<>>
    ELSE IF res.parse_status # "unset"
    THEN <<ParsedMesh(exp, 0, 0, 0, res, res.parse_status, res.error_message)>>
    ELSE [i \in 1..Len(lds) |->
            ParsedMesh(exp, i - 1, lds[i].vertex_count, lds[i].index_count, res,
                       "complete", "unset")]

\* what one turn of the loop appends to meshes: one mesh with zeros for an
\* exception ("except Exception as e"), one mesh for a status other than
\* 'success' (the default of result.get('parse_status', 'success')), else
\* one mesh per LOD
mesh_results(exp, mpc, res, lds) ==
    IF mpc = "raised"
    THEN <<ParsedMesh(exp, 0, 0, 0, NewResult(0), "error", "str(e)")>>
    ELSE IF res.parse_status # "unset"
    THEN <<ParsedMesh(exp, 0, 0, 0, res, res.parse_status, res.error_message)>>
    ELSE [i \in 1..Len(lds) |->
            ParsedMesh(exp, i - 1, lds[i].vertex_count, lds[i].index_count, res,
                       "complete", "unset")]

\* export payloads: InternalVersion 11 behind 41 bytes of bounds with one,
\* two and no LOD; a skip pointer behind the buffer; the first payload cut
\* short; an index count above the ceiling; InternalVersion 128, which only
\* the anchor search of lines 298-336 finds
GoodShape == [BaseShape EXCEPT !.version = 11, !.box = 41]
PipePayloads ==
    { MeshExport(GoodShape),
      MeshExport(BaseShape),
      MeshExport([GoodShape EXCEPT !.nlod = 2]),
      MeshExport([GoodShape EXCEPT !.nlod = 0]),
      MeshExport([GoodShape EXCEPT !.skip = "beyond"]),
      [data |-> SubSeq(MeshExport(GoodShape).data, 1, Len(MeshExport(GoodShape).data) - 3),
       serial_offset |-> 64],
      AbsurdExport([lodv |-> 0, lsec |-> 0, vcd |-> 1, icd |-> IndexCeiling + 1]) }

\* the entries of an export table: StaticMesh exports with these payloads
\* and a Texture; payload is what pkg.get_export_data(exp) returns
PipeEntries ==
    {[class_name |-> Str_StaticMesh, payload |-> m.data, serial_offset |-> m.serial_offset] :
        m \in PipePayloads}
    \cup {[class_name |-> Str_Texture, payload |-> <<1, 2, 3>>, serial_offset |-> 64]}

\* most exports of a generated package
MaxPipeExports == 3

\* pkg.exports, numbered from 1 as _parse_exports does
PipeExports(es) ==
    [k \in 1..Len(es) |->
        [index |-> k, class_name |-> es[k].class_name, object_name |-> ExportName(k),
         serial_offset |-> es[k].serial_offset, payload |-> es[k].payload]]

PipeInit ==
    /\ \E es \in SeqsUpTo(PipeEntries, MaxPipeExports) : exports = PipeExports(es)
    /\ pkg_pc \in {"opened", "rejected"}
    /\ names = PropNames
    /\ data = <<>>
    /\ start = 0
    /\ pos = 0
    /\ op = "parse_staticmesh_file"
    /\ ret = NoRet
    /\ hdr = NoHeader
    /\ imports = <<>>
    /\ high = 0
    /\ NoProps
    /\ mesh_pc = "idle"
    /\ result = NewResult(0)
    /\ loc = NoLocals
    /\ lods = <<>>
    /\ pipe_pc = "load"
    /\ static_mesh_exports = <<>>
    /\ exp_i = 0
    /\ meshes = <<>>
    /\ ended = <<>>
    /\ pkg_data = <<>>
    /\ threads = <<>>
    /\ NoChunk

PipeFrame ==
    /\ UNCHANGED <<op, ret, pkg_data, threads, chunk_pc, db_exports, row_i, attached>>
    /\ UNCHANGED lod_model
    /\ UNCHANGED pkgVars
    /\ UNCHANGED propVars

IsStaticMesh(e) == e.class_name = Str_StaticMesh

\* pkg = UE2Package(pkg_path), "return meshes" if that raises; else
\* static_mesh_exports = [e for e in pkg.exports if ...]
PipeLoad ==
    /\ pipe_pc = "load"
    /\ IF pkg_pc = "rejected"
       THEN pipe_pc' = "done" /\ UNCHANGED <<static_mesh_exports, exp_i>>
       ELSE /\ pipe_pc' = "next"
            /\ static_mesh_exports' = SelectSeq(exports, IsStaticMesh)
            /\ exp_i' = 1
    /\ UNCHANGED <<meshes, ended, data, start, pos, mesh_pc, result, loc, lods>>
    /\ PipeFrame

\* for exp in static_mesh_exports: data = pkg.get_export_data(exp),
\* serial_offset = exp['serial_offset'], parse_staticmesh is entered
PipeBegin ==
    /\ pipe_pc = "next"
    /\ exp_i <= Len(static_mesh_exports)
    /\ pipe_pc' = "parsing"
    /\ data' = static_mesh_exports[exp_i].payload
    /\ start' = static_mesh_exports[exp_i].serial_offset
    /\ pos' = 0
    /\ mesh_pc' = "properties"
    /\ result' = NewResult(Len(data'))
    /\ loc' = NoLocals
    /\ lods' = <<>>
    /\ UNCHANGED <<static_mesh_exports, exp_i, meshes, ended>>
    /\ PipeFrame

\* parse_staticmesh has returned or raised: the rest of the turn
PipeCollect ==
    /\ pipe_pc = "parsing"
    /\ mesh_pc \in {"returned", "raised"}
    /\ meshes' = meshes \o mesh_results(static_mesh_exports[exp_i], mesh_pc, result, lods)
    /\ ended' = Append(ended, [index |-> static_mesh_exports[exp_i].index,
                               raised |-> mesh_pc = "raised",
                               status |-> result.parse_status,
                               lod_count |-> Len(lods),
                               bytes_total |-> Len(data)])
    /\ exp_i' = exp_i + 1
    /\ pipe_pc' = "next"
    /\ mesh_pc' = "idle"
    /\ UNCHANGED <<static_mesh_exports, data, start, pos, result, loc, lods>>
    /\ PipeFrame

\* the loop is over: return meshes
PipeReturn ==
    /\ pipe_pc = "next"
    /\ exp_i > Len(static_mesh_exports)
    /\ pipe_pc' = "done"
    /\ UNCHANGED <<static_mesh_exports, exp_i, meshes, ended>>
    /\ UNCHANGED <<data, start, pos, mesh_pc, result, loc, lods>>
    /\ PipeFrame

PipeNext ==
    \/ PipeLoad
    \/ PipeBegin
    \/ MeshProperties
    \/ MeshLegacyScan
    \/ MeshAnchor
    \/ MeshCore
    \/ MeshSkip
    \/ MeshPostSkip
    \/ MeshLod
    \/ MeshTail
    \/ PipeCollect
    \/ PipeReturn

PipeSpec == PipeInit /\ [][PipeNext]_vars

----------------------------------------------------------------------------
(* Properties of parse_staticmesh_file                                     *)

\* the results in meshes for the export with index k
ResultsOf(k) == SelectSeq(meshes, LAMBDA m : m.export_index = k)

\* results without what names the export
Anonymous(ms) == [i \in 1..Len(ms) |-> [ms[i] EXCEPT !.name = <<>>, !.export_index = 0]]

\* the i-th export processed failed: an exception or an error status
Failed(i) == ended[i].raised \/ ended[i].status # "unset"

CarriesAccounting(m) == {"bytes_total", "bytes_parsed", "bytes_unknown"} \subseteq DOMAIN m

\* the results of the i-th export processed: one error result for a
\* failure (with zeros after an exception, else with the accounting of
\* the result), one complete result per LOD for a success
ResultsAsEnded(i) ==
    LET rs == ResultsOf(ended[i].index)
    IN  /\ \A n \in 1..Len(rs) : CarriesAccounting(rs[n])
        /\ Failed(i) =>
                /\ Len(rs) = 1
                /\ rs[1].parse_status = "error"
                /\ rs[1].bytes_total = (IF ended[i].raised THEN 0 ELSE ended[i].bytes_total)
        /\ ~Failed(i) =>
                /\ Len(rs) = ended[i].lod_count
                /\ \A n \in 1..Len(rs) :
                        /\ rs[n].parse_status = "complete"
                        /\ rs[n].bytes_total = ended[i].bytes_total

\* the payload and serial_offset of the i-th export processed
PayloadOf(i) ==
    <<exports[ended[i].index].payload, exports[ended[i].index].serial_offset>>

\* the exports processed are the StaticMesh exports of the package, in order
ProcessedSoFar ==
    /\ Len(ended) <= Len(static_mesh_exports)
    /\ \A i \in 1..Len(ended) : ended[i].index = static_mesh_exports[i].index
AllProcessed ==
    /\ Len(ended) = Len(static_mesh_exports)
    /\ Len(ended) = Cardinality({k \in 1..Len(exports) : IsStaticMesh(exports[k])})

----------------------------------------------------------------------------
(* Two decodings of exports of one container, taking turns                 *)
(* get_export_data and get_exports_by_class of ue2/package.py, parse_chunk *)
(* of ue2/properties.py and parse_staticmesh work on the container and on  *)
(* their own locals; a decoding is suspended by putting its locals aside   *)

\* UE2Package.get_exports_by_class
get_exports_by_class(es, class_name) == SelectSeq(es, LAMBDA e : e.class_name = class_name)

\* the payloads of the exports of a generated file, for the serial_offset so
ThreadShapes == {"lod", "two_lods", "beyond", "cut"}
ThreadPayload(shape, so) ==
    LET good == [GoodShape EXCEPT !.so = so]
    IN  CASE shape = "lod" -> MeshExport(good).data
          [] shape = "two_lods" -> MeshExport([good EXCEPT !.nlod = 2]).data
          [] shape = "beyond" -> MeshExport([good EXCEPT !.skip = "beyond"]).data
          [] shape = "cut" -> SubSeq(MeshExport(good).data, 1, Len(MeshExport(good).data) - 3)

\* the bytes of a file before its first export
ThreadFileHead == Fill(64, 0)

\* the property lists of the third export: an Int and a Struct property
\* before None, None; an Int property and a Map, which ends the decoding
ThreadStreams ==
    { <<1, 34, 7, 0, 0, 0>> \o <<2, 42, 4, 1, 2, 3, 4>> \o <<0, 0>>,
      <<1, 34, 7, 0, 0, 0>> \o <<1, 14, 9>> \o <<0>> }

\* a file with a Texture export between two StaticMesh exports
ThreadFile(a, b, c) ==
    LET first == ThreadPayload(a, Len(ThreadFileHead))
        behind == Len(ThreadFileHead) + Len(first) + Len(c)
        second == ThreadPayload(b, behind)
    IN  [data |-> ThreadFileHead \o first \o c \o second,
         exports |->
            <<[index |-> 1, class_name |-> Str_StaticMesh, object_name |-> ExportName(1),
               serial_offset |-> FromInt(Len(ThreadFileHead)),
               serial_size |-> FromInt(Len(first))],
              [index |-> 2, class_name |-> Str_Texture, object_name |-> ExportName(2),
               serial_offset |-> FromInt(Len(ThreadFileHead) + Len(first)),
               serial_size |-> FromInt(Len(c))],
              [index |-> 3, class_name |-> Str_StaticMesh, object_name |-> ExportName(3),
               serial_offset |-> FromInt(behind),
               serial_size |-> FromInt(Len(second))]>>]

\* what a decoding does: parse_staticmesh on the first or second StaticMesh
\* export, or the turn of parse_chunk (find_property_start,
\* parse_properties) on the export with the index 2
ThreadTasks ==
    [export : 1..2, kind : {"parse_staticmesh"}] \cup [export : {2}, kind : {"parse_chunk"}]

\* most times the running decoding is suspended for the other
MaxSwitches == 2

\* the locals of the running decoding
ThreadLocals ==
    [data |-> data, start |-> start, pos |-> pos,
     prop_pc |-> prop_pc, stop |-> stop, properties |-> properties,
     prop_start |-> prop_start, lookups |-> lookups,
     consecutive_nones |-> consecutive_nones, current_list |-> current_list,
     trace |-> trace,
     mesh_pc |-> mesh_pc, result |-> result, loc |-> loc, lods |-> lods]

\* the locals of a decoding that has not begun
IdleLocals ==
    [data |-> <<>>, start |-> 0, pos |-> 0,
     prop_pc |-> "idle", stop |-> "", properties |-> <<>>,
     prop_start |-> -1, lookups |-> {},
     consecutive_nones |-> 0, current_list |-> 0,
     trace |-> <<>>,
     mesh_pc |-> "idle", result |-> NewResult(0), loc |-> NoLocals, lods |-> <<>>]

\* a bug: the cursor belongs to the container, not to the decoding
Resume_shared_cursor(c) ==
    /\ data' = c.data /\ start' = c.start /\ pos' = pos
    /\ prop_pc' = c.prop_pc /\ stop' = c.stop /\ properties' = c.properties
    /\ prop_start' = c.prop_start /\ lookups' = c.lookups
    /\ consecutive_nones' = c.consecutive_nones /\ current_list' = c.current_list
    /\ trace' = c.trace
    /\ mesh_pc' = c.mesh_pc /\ result' = c.result /\ loc' = c.loc /\ lods' = c.lods

\* the decoding with the locals c runs on
Resume(c) ==
    /\ data' = c.data /\ start' = c.start /\ pos' = c.pos
    /\ prop_pc' = c.prop_pc /\ stop' = c.stop /\ properties' = c.properties
    /\ prop_start' = c.prop_start /\ lookups' = c.lookups
    /\ consecutive_nones' = c.consecutive_nones /\ current_list' = c.current_list
    /\ trace' = c.trace
    /\ mesh_pc' = c.mesh_pc /\ result' = c.result /\ loc' = c.loc /\ lods' = c.lods

\* the tables and the buffer of the container
Container == [names |-> names, imports |-> imports, exports |-> exports, data |-> pkg_data]

\* the container is built; first its export is decoded alone, then the
\* same decoding and another one take turns
ThreadInit ==
    /\ \E a, b \in ThreadShapes, c \in ThreadStreams :
          /\ pkg_data = ThreadFile(a, b, c).data
          /\ exports = ThreadFile(a, b, c).exports
    /\ names = PropNames
    /\ imports = <<>>
    /\ pkg_pc = "open"
    /\ hdr = NoHeader
    /\ high = 0
    /\ op = "decode"
    /\ ret = NoRet
    /\ data = <<>> /\ start = 0 /\ pos = 0
    /\ NoProps
    /\ mesh_pc = "idle"
    /\ result = NewResult(0)
    /\ loc = NoLocals
    /\ lods = <<>>
    /\ pipe_pc = "idle"
    /\ static_mesh_exports = <<>>
    /\ exp_i = 0
    /\ meshes = <<>>
    /\ ended = <<>>
    /\ NoChunk
    /\ \E t, u \in ThreadTasks :
          threads = [phase |-> "alone", task |-> t,
                     parked |-> [task |-> u, locals |-> IdleLocals, waiting |-> TRUE],
                     alone |-> IdleLocals, finished |-> <<>>, switches |-> 0,
                     built |-> Container, built_task |-> t]

ThreadFrame ==
    /\ UNCHANGED <<op, ret>>
    /\ UNCHANGED pkgVars
    /\ UNCHANGED <<pipe_pc, static_mesh_exports, exp_i, meshes, ended, pkg_data>>
    /\ UNCHANGED <<chunk_pc, db_exports, row_i, attached, lod_model>>

Running == threads # <<>> /\ threads.phase \in {"alone", "together"}
NotBegun == prop_pc = "idle" /\ mesh_pc = "idle"
Ended == mesh_pc \in {"returned", "raised"} \/ prop_pc = "done"

\* the export of a task: parse_staticmesh_file takes it from the StaticMesh
\* exports, parse_chunk looks it up by its index
TaskExport(t) ==
    IF t.kind = "parse_staticmesh"
    THEN get_exports_by_class(exports, Str_StaticMesh)[t.export]
    ELSE CHOOSE e \in {exports[k] : k \in 1..Len(exports)} : e.index = t.export

\* data = pkg.get_export_data(exp); parse_staticmesh(data, pkg.names,
\* serial_offset) is entered, or the turn of parse_chunk goes on to
\* find_property_start
ThreadBegin ==
    /\ Running
    /\ NotBegun
    /\ data' = get_export_data(pkg_data, TaskExport(threads.task))
    /\ pos' = 0
    /\ IF threads.task.kind = "parse_staticmesh"
       THEN /\ start' = ToInt(TaskExport(threads.task).serial_offset)
            /\ mesh_pc' = "properties"
            /\ result' = NewResult(Len(data'))
            /\ loc' = NoLocals
            /\ lods' = <<>>
            /\ UNCHANGED propVars
       ELSE /\ start' = -1
            /\ prop_pc' = "find"
            /\ UNCHANGED <<stop, properties, prop_start, lookups, consecutive_nones,
                           current_list, trace>>
            /\ UNCHANGED <<mesh_pc, result, loc, lods>>
    /\ UNCHANGED threads
    /\ ThreadFrame

\* the running decoding is put aside and the other one runs on
ThreadSwitch ==
    /\ Running
    /\ threads.phase = "together"
    /\ threads.parked.waiting
    /\ ~Ended
    /\ threads.switches < MaxSwitches
    /\ threads' = [threads EXCEPT !.task = threads.parked.task,
                                  !.parked = [task |-> threads.task,
                                              locals |-> ThreadLocals,
                                              waiting |-> TRUE],
                                  !.switches = @ + 1]
    /\ Resume(threads.parked.locals)
    /\ ThreadFrame

\* the running decoding has ended: what it leaves is kept, and the other
\* decoding runs on; after the decoding alone, the two begin
ThreadEnd ==
    /\ Running
    /\ Ended
    /\ IF threads.phase = "alone"
       THEN /\ threads' = [threads EXCEPT !.phase = "together", !.alone = ThreadLocals]
            /\ Resume(IdleLocals)
       ELSE IF threads.parked.waiting
       THEN /\ threads' = [threads EXCEPT
                              !.finished = Append(@, [task |-> threads.task,
                                                      locals |-> ThreadLocals]),
                              !.task = threads.parked.task,
                              !.parked = [@ EXCEPT !.waiting = FALSE]]
            /\ Resume(threads.parked.locals)
       ELSE /\ threads' = [threads EXCEPT
                              !.finished = Append(@, [task |-> threads.task,
                                                      locals |-> ThreadLocals]),
                              !.phase = "done"]
            /\ Resume(IdleLocals)
    /\ ThreadFrame

ThreadNext ==
    \/ ThreadBegin
    \/ ThreadSwitch
    \/ ThreadEnd
    \/ MeshProperties
    \/ MeshLegacyScan
    \/ MeshAnchor
    \/ MeshCore
    \/ MeshSkip
    \/ MeshPostSkip
    \/ MeshLod
    \/ MeshTail
    \/ FindPropertyStart
    \/ PropLoopExit
    \/ PropLoopTurn

ThreadSpec == ThreadInit /\ [][ThreadNext]_vars

\* the decodings that have ended while the two took turns
FinishedThreads == {threads.finished[i] : i \in 1..Len(threads.finished)}

\* C18: no step of a decoding (get_export_data, get_exports_by_class,
\* find_property_start, parse_properties, parse_staticmesh) changes the
\* name table, the import table, the export table or the byte buffer of
\* the container, so a decoding that takes turns with another one ends as
\* it ends alone, and two decodings of the same export end alike
C18_ReadOnlyContainer ==
    /\ Container = threads.built
    /\ \A f \in FinishedThreads :
            f.task = threads.built_task => f.locals = threads.alone
    /\ \A f, g \in FinishedThreads : f.task = g.task => f.locals = g.locals

\* both decodings have ended after taking turns as often as may be; they
\* were of different exports, and the one also decoded alone found LODs
C18_Witness ==
    /\ threads.phase = "done"
    /\ threads.switches = MaxSwitches
    /\ \E f, g \in FinishedThreads :
            /\ f.task = threads.built_task
            /\ g.task.kind = "parse_chunk"
            /\ f.locals.mesh_pc = "returned"
            /\ Len(f.locals.lods) >= 1
            /\ g.locals.prop_pc = "done"
            /\ Len(g.locals.properties) >= 1

----------------------------------------------------------------------------
(* scripts/extractors/extract_chunk_data.py : parse_vgr_file and           *)
(* process_chunk_file store a row per export; ue2/properties.py :          *)
(* parse_chunk decodes the properties of the export of each row            *)

\* struct.unpack("<I", data[p:p+4]) of parse_vgr_file
vgr_unpack(d, p) ==
    [ok |-> read_fixed(d, p, 4).ok,
     val |-> IF read_fixed(d, p, 4).ok THEN U32(read_fixed(d, p, 4).bytes) ELSE 0,
     pos |-> p + 4]

\* parse_vgr_file: the header; no signature is compared
vgr_header(d) ==
    [ok |-> Len(d) >= 36,
     name_count |-> vgr_unpack(d, 12).val, name_offset |-> vgr_unpack(d, 16).val,
     export_count |-> vgr_unpack(d, 20).val, export_offset |-> vgr_unpack(d, 24).val,
     import_count |-> vgr_unpack(d, 28).val, import_offset |-> vgr_unpack(d, 32).val]

\* read_fstring of extract_chunk_data.py: the payload is a slice
vgr_read_fstring(d, p) ==
    Bind(extract_chunk_data_read_compact_index(d, p), LAMBDA l :
        Bind(ToInt(l.val), LAMBDA length :
            IF ~l.ok THEN FSErr(l.pos)
            ELSE IF length < 0
            THEN FSOk(rstrip_nul(decode_utf16le(PySlice(d, l.pos, l.pos + (-length) * 2))),
                      l.val, l.pos + (-length) * 2)
            ELSE FSOk(rstrip_nul(decode_latin1(PySlice(d, l.pos, l.pos + length))),
                      l.val, l.pos + length)))

\* the reads of a table entry in the order of parse_vgr_file: a compact
\* index, or four bytes unpacked
vgr_read_field(d, p, kind) ==
    IF kind = "index"
    THEN extract_chunk_data_read_compact_index(d, p)
    ELSE [ok |-> vgr_unpack(d, p).ok, val |-> FromInt(vgr_unpack(d, p).val),
          pos |-> vgr_unpack(d, p).pos]

RECURSIVE vgr_read_fields(_, _, _)
vgr_read_fields(d, p, kinds) ==
    IF kinds = <<>> THEN [ok |-> TRUE, vals |-> <<>>, pos |-> p]
    ELSE Bind(vgr_read_field(d, p, Head(kinds)), LAMBDA r :
            IF ~r.ok THEN [ok |-> FALSE, vals |-> <<>>, pos |-> r.pos]
            ELSE Bind(vgr_read_fields(d, r.pos, Tail(kinds)), LAMBDA rest :
                    [ok |-> rest.ok, vals |-> <<r.val>> \o rest.vals, pos |-> rest.pos]))

\* names[i] if 0 <= i < len(names) else ''
vgr_name(nm, index) == IF InRange(index, nm) THEN nm[index.lo + 1] ELSE Str_Empty

\* "Read names": name and flags, name_count times
RECURSIVE vgr_names(_, _, _, _)
vgr_names(d, p, count, nm) ==
    IF count = 0 THEN [ok |-> TRUE, names |-> nm]
    ELSE Bind(vgr_read_fstring(d, p), LAMBDA f :
            IF ~f.ok \/ ~vgr_unpack(d, f.pos).ok THEN [ok |-> FALSE, names |-> nm]
            ELSE vgr_names(d, f.pos + 4, count - 1, Append(nm, f.str)))

\* "Read imports": class and name of each import
RECURSIVE vgr_imports(_, _, _, _, _)
vgr_imports(d, p, count, nm, imp) ==
    IF count = 0 THEN [ok |-> TRUE, imports |-> imp]
    ELSE Bind(vgr_read_fields(d, p, <<"index", "index", "int32", "index">>), LAMBDA r :
            IF ~r.ok THEN [ok |-> FALSE, imports |-> imp]
            ELSE vgr_imports(d, r.pos, count - 1, nm,
                             Append(imp, [class |-> vgr_name(nm, r.vals[2]),
                                          name |-> vgr_name(nm, r.vals[4])])))

\* the class name of an export: the name of the import -class_index - 1
vgr_class_name(imp, class_index) ==
    IF IsNegative(class_index) /\ class_index.hi = 0 /\ class_index.lo - 1 < Len(imp)
    THEN imp[class_index.lo].name
    ELSE Str_Empty

\* "Read exports", for idx in range(export_count): the entry, and the
\* export appended with 'index': idx (the classes of the generated files
\* are none of the placeable ones, so position is None)
RECURSIVE vgr_exports(_, _, _, _, _, _, _)
vgr_exports(d, p, idx, count, nm, imp, exps) ==
    IF idx >= count THEN [ok |-> TRUE, exports |-> exps]
    ELSE Bind(vgr_read_fields(d, p, <<"index", "index", "int32", "index", "uint32", "index">>),
              LAMBDA r :
            IF ~r.ok THEN [ok |-> FALSE, exports |-> exps]
            ELSE Bind(IF IsPositive(r.vals[6])
                      THEN extract_chunk_data_read_compact_index(d, r.pos)
                      ELSE CIOk(FALSE, 0, 0, r.pos), LAMBDA so :
                    IF ~so.ok THEN [ok |-> FALSE, exports |-> exps]
                    ELSE vgr_exports(d, so.pos, idx + 1, count, nm, imp,
                            Append(exps, [index |-> idx,
                                          object_name |-> vgr_name(nm, r.vals[4]),
                                          class_name |-> vgr_class_name(imp, r.vals[1]),
                                          serial_offset |-> so.val,
                                          serial_size |-> r.vals[6]]))))

\* parse_vgr_file(filepath): the exports, or an exception
parse_vgr_file(d) ==
    Bind(vgr_header(d), LAMBDA h :
        IF ~h.ok THEN [ok |-> FALSE, exports |-> <<>>]
        ELSE Bind(vgr_names(d, h.name_offset, h.name_count, <<>>), LAMBDA n :
            IF ~n.ok THEN [ok |-> FALSE, exports |-> <<>>]
            ELSE Bind(vgr_imports(d, h.import_offset, h.import_count, n.names, <<>>),
                      LAMBDA i :
                IF ~i.ok THEN [ok |-> FALSE, exports |-> <<>>]
                ELSE vgr_exports(d, h.export_offset, 0, h.export_count, n.names,
                                 i.imports, <<>>))))

----------------------------------------------------------------------------
(* Generated chunk files                                                   *)

\* the payloads of the exports of a chunk: none; an Int property "A" and
\* None; an Int property "B" at the end of the payload; two bytes that are
\* no property list
ChunkPayloads ==
    { <<>>,
      <<1, 34, 7, 1, 1, 1, 0>>,
      <<2, 34, 9, 1, 1, 1>>,
      <<9, 9>> }

\* the export entry k: class imports[0], its name, serial_size and, for a
\* payload, serial_offset
ChunkExportBytes(k, size, off) ==
    Encode(FromInt(-1)) \o Encode(FromInt(0)) \o LE32(0) \o Encode(FromInt(2 + k))
    \o LE32(k) \o Encode(FromInt(size))
    \o (IF size > 0 THEN Encode(FromInt(off)) ELSE <<>>)

\* the place of payload k behind the payload offset
RECURSIVE PayloadPlace(_, _)
PayloadPlace(payloads, k) ==
    IF k <= 1 THEN 0 ELSE PayloadPlace(payloads, k - 1) + Len(payloads[k - 1])

\* a chunk file with these payloads: header, names, imports, exports,
\* payloads; the offsets take two bytes each
ChunkFile(payloads, sig) ==
    LET n == Len(payloads)
        name_offset == 36
        import_offset == name_offset + Len(NameTableBytes)
        export_offset == import_offset + Len(ImportTableBytes)
        entry(k, po) == ChunkExportBytes(k, Len(payloads[k]), po + PayloadPlace(payloads, k))
        po == export_offset + Len(Concat([k \in 1..n |-> entry(k, 64)]))
    IN  sig \o <<128, 0, 35, 0>> \o LE32(0)
        \o LE32(Len(FileNames)) \o LE32(name_offset)
        \o LE32(n) \o LE32(export_offset)
        \o LE32(NumImports) \o LE32(import_offset)
        \o NameTableBytes \o ImportTableBytes
        \o Concat([k \in 1..n |-> entry(k, po)])
        \o Concat(payloads)

\* a file with the most exports, each with a property list
BaseChunk == ChunkFile([k \in 1..MaxExports |-> <<1, 34, 7, 1, 1, 1, 0>>], SIGNATURE)

\* chunk files with any payloads, with a wrong signature, and cut short
ChunkFiles ==
    {ChunkFile(ps, sig) : ps \in SeqsUpTo(ChunkPayloads, MaxExports),
                          sig \in {SIGNATURE, <<193, 131, 42, 159>>}}
    \cup {SubSeq(BaseChunk, 1, cut) : cut \in 0..Len(BaseChunk)}

----------------------------------------------------------------------------
(* Chunk state machine: process_chunk_file stores the rows, parse_chunk    *)
(* opens the package and decodes the export of each row                    *)

ChunkInit ==
    /\ data \in ChunkFiles
    /\ pos = 0
    /\ op = "process_chunk_file"
    /\ start = 0
    /\ ret = NoRet
    /\ NoPackage
    /\ NoProps
    /\ mesh_pc = "idle"
    /\ result = NewResult(0)
    /\ loc = NoLocals
    /\ lods = <<>>
    /\ pipe_pc = "idle"
    /\ static_mesh_exports = <<>>
    /\ exp_i = 0
    /\ meshes = <<>>
    /\ ended = <<>>
    /\ pkg_data = <<>>
    /\ threads = <<>>
    /\ chunk_pc = "extract"
    /\ db_exports = <<>>
    /\ row_i = 0
    /\ attached = <<>>
    /\ lod_model = NoLodModel

ChunkFrame ==
    /\ UNCHANGED <<op, ret>>
    /\ UNCHANGED <<mesh_pc, result, loc, lods>>
    /\ UNCHANGED <<pipe_pc, static_mesh_exports, exp_i, meshes, ended, threads>>
    /\ UNCHANGED lod_model

\* the row process_chunk_file inserts for an export of parse_vgr_file
ExportRow(id, exp) ==
    [id |-> id, export_index |-> exp.index, object_name |-> exp.object_name,
     class_name |-> exp.class_name, serial_offset |-> exp.serial_offset,
     serial_size |-> exp.serial_size]

\* process_chunk_file: parse_vgr_file, "ERROR" and return 0 if it raises,
\* else a row per export
ProcessChunkFile ==
    /\ chunk_pc = "extract"
    /\ LET parsed == parse_vgr_file(data)
       IN  IF ~parsed.ok
           THEN chunk_pc' = "failed" /\ UNCHANGED db_exports
           ELSE /\ chunk_pc' = "stored"
                /\ db_exports' = [k \in 1..Len(parsed.exports) |->
                                    ExportRow(k, parsed.exports[k])]
    /\ UNCHANGED <<data, pos, start, pkg_data, row_i, attached>>
    /\ UNCHANGED pkgVars
    /\ UNCHANGED propVars
    /\ ChunkFrame

\* parse_chunk begins: pkg = UE2Package(chunk_path) reads the file
ParseChunkOpen ==
    /\ chunk_pc = "stored"
    /\ chunk_pc' = "opening"
    /\ pkg_pc' = "header"
    /\ pkg_data' = data
    /\ pos' = 0
    /\ UNCHANGED <<hdr, names, imports, exports, high>>
    /\ UNCHANGED <<data, start, db_exports, row_i, attached>>
    /\ UNCHANGED propVars
    /\ ChunkFrame

\* "except Exception as e: return stats"
ParseChunkRejected ==
    /\ chunk_pc = "opening"
    /\ pkg_pc \in {"Truncated", "InvalidSignature"}
    /\ chunk_pc' = "done"
    /\ UNCHANGED <<data, pos, start, pkg_data, db_exports, row_i, attached>>
    /\ UNCHANGED pkgVars
    /\ UNCHANGED propVars
    /\ ChunkFrame

\* exports = cursor.fetchall(): the rows of the chunk
ParseChunkFetch ==
    /\ chunk_pc = "opening"
    /\ pkg_pc = "open"
    /\ chunk_pc' = "rows"
    /\ row_i' = 1
    /\ UNCHANGED <<data, pos, start, pkg_data, db_exports, attached>>
    /\ UNCHANGED pkgVars
    /\ UNCHANGED propVars
    /\ ChunkFrame

\* next((e for e in pkg.exports if e.get("index") == exp_index), None):
\* the place of the export in pkg.exports, 0 for None
LookupExport(exps, exp_index) ==
    IF \E k \in 1..Len(exps) : exps[k].index = exp_index
    THEN CHOOSE k \in 1..Len(exps) :
            /\ exps[k].index = exp_index
            /\ \A j \in 1..(k - 1) : exps[j].index # exp_index
    ELSE 0

\* what parse_chunk did for the row at row_i
Attachment(found, index, bytes, why, count) ==
    [row |-> row_i, found |-> found, index |-> index, data |-> bytes, stop |-> why,
     properties |-> count]

\* for exp_id, exp_index, class_name in exports: the export is looked up,
\* "if not exp: continue"; else data = pkg.get_export_data(exp)
ParseChunkRow ==
    /\ chunk_pc = "rows"
    /\ row_i <= Len(db_exports)
    /\ LET k == LookupExport(exports, db_exports[row_i].export_index)
       IN  IF k = 0
           THEN /\ attached' = Append(attached, Attachment(FALSE, 0, <<>>, "no_export", 0))
                /\ row_i' = row_i + 1
                /\ UNCHANGED <<chunk_pc, data, pos, start>>
                /\ UNCHANGED propVars
           ELSE /\ data' = get_export_data(pkg_data, exports[k])
                /\ chunk_pc' = "decoding"
                /\ start' = -1
                /\ pos' = 0
                /\ prop_pc' = "find"
                /\ stop' = ""
                /\ properties' = <<>>
                /\ prop_start' = -1
                /\ lookups' = {}
                /\ consecutive_nones' = 0
                /\ current_list' = 0
                /\ trace' = <<>>
                /\ UNCHANGED <<row_i, attached>>
    /\ UNCHANGED <<pkg_data, db_exports>>
    /\ UNCHANGED pkgVars
    /\ ChunkFrame

\* the turn ends: the properties are inserted with export_id = exp_id; an
\* exception of find_property_start or parse_properties leaves parse_chunk
ParseChunkInsert ==
    /\ chunk_pc = "decoding"
    /\ prop_pc = "done"
    /\ attached' = Append(attached,
            Attachment(TRUE, exports[LookupExport(exports, db_exports[row_i].export_index)].index,
                       data, stop, Len(properties)))
    /\ IF stop \in {"exception", "IndexError"}
       THEN chunk_pc' = "raised" /\ UNCHANGED row_i
       ELSE chunk_pc' = "rows" /\ row_i' = row_i + 1
    /\ prop_pc' = "idle"
    /\ UNCHANGED <<stop, properties, prop_start, lookups, consecutive_nones, current_list,
                   trace>>
    /\ UNCHANGED <<data, pos, start, pkg_data, db_exports>>
    /\ UNCHANGED pkgVars
    /\ ChunkFrame

\* the rows are through: conn.commit(), return stats
ParseChunkCommit ==
    /\ chunk_pc = "rows"
    /\ row_i > Len(db_exports)
    /\ chunk_pc' = "done"
    /\ UNCHANGED <<data, pos, start, pkg_data, db_exports, row_i, attached>>
    /\ UNCHANGED pkgVars
    /\ UNCHANGED propVars
    /\ ChunkFrame

ChunkNext ==
    \/ ProcessChunkFile
    \/ ParseChunkOpen
    \/ ParseHeader
    \/ ParseName
    \/ SeekImports
    \/ ParseImport
    \/ SeekExports
    \/ ParseExport
    \/ FinishOpen
    \/ ParseChunkRejected
    \/ ParseChunkFetch
    \/ ParseChunkRow
    \/ FindPropertyStart
    \/ PropLoopExit
    \/ PropLoopTurn
    \/ ParseChunkInsert
    \/ ParseChunkCommit

ChunkSpec == ChunkInit /\ [][ChunkNext]_vars

\* the container is open and the rows of the chunk are fetched
RowsFetched == chunk_pc \in {"rows", "decoding", "done", "raised"} /\ pkg_pc = "open"

\* the bytes of the export the row at place k was stored for
RowBytes(k) ==
    get_export_data(pkg_data, [serial_offset |-> db_exports[k].serial_offset,
                               serial_size |-> db_exports[k].serial_size])

\* C19: the export index parse_vgr_file records for the k-th entry of the
\* export table (k from 1) is positive and is the 'index' UE2Package
\* gives that entry, so parse_chunk finds a package export for every row
\* and decodes the bytes of the export the row was stored for
C19_IndexAgreement ==
    RowsFetched =>
        /\ Len(db_exports) = Len(exports)
        /\ \A k \in 1..Len(db_exports) :
                /\ db_exports[k].export_index >= 1
                /\ db_exports[k].export_index = exports[k].index
        /\ \A i \in 1..Len(attached) :
                /\ attached[i].found
                /\ attached[i].data = RowBytes(attached[i].row)

\* what the code does: UE2Package numbers the entries from 1,
\* parse_vgr_file from 0, so the row of the k-th entry is given the export
\* k - 1, and the row of the first entry none
C19_RowsOneBehind ==
    RowsFetched =>
        /\ Len(db_exports) = Len(exports)
        /\ \A k \in 1..Len(db_exports) :
                /\ exports[k].index = k
                /\ db_exports[k].export_index = k - 1
                /\ db_exports[k].serial_offset = exports[k].serial_offset
                /\ db_exports[k].serial_size = exports[k].serial_size
        /\ \A i \in 1..Len(attached) :
                /\ attached[i].found = (attached[i].row >= 2)
                /\ attached[i].found => attached[i].index = attached[i].row - 1

\* the row of the second export is given the property of the first one
C19_PropertiesOfAnotherExport ==
    /\ chunk_pc = "done"
    /\ \E i \in 1..Len(attached) :
            /\ attached[i].row = 2
            /\ attached[i].properties = 1
            /\ attached[i].data = <<1, 34, 7, 1, 1, 1, 0>>
            /\ RowBytes(2) = <<2, 34, 9, 1, 1, 1>>

\* the row of the first export is passed over: no export has the index 0
C19_NoExportForFirstRow ==
    /\ chunk_pc = "done"
    /\ Len(attached) >= 1
    /\ attached[1].row = 1
    /\ ~attached[1].found
    /\ Len(RowBytes(1)) >= 2

----------------------------------------------------------------------------
(* find_none_terminator against the property decoder                       *)

\* the turn of parse_properties that decodes the first None of a buffer it
\* was started on at offset 0
FirstNoneDecoded ==
    /\ start = 0
    /\ prop_pc = "loop"
    /\ NonesIn(trace, Len(trace)) = 0
    /\ Len(trace') = Len(trace) + 1
    /\ trace'[Len(trace')] = "None"

\* C21: the offset find_none_terminator returns equals the offset at which
\* the property decoder ends its first list on the same buffer and name
\* table: when parse_properties, started at offset 0, has decoded its first
\* None terminator, its cursor is just past that None, and
\* find_none_terminator returns that same offset.
C21_SameTerminator ==
    [][FirstNoneDecoded => find_none_terminator(data, names) = FntOk(pos')]_vars

----------------------------------------------------------------------------
(* The section record width                                                *)

\* parse_staticmesh has settled on a section record width
WidthSettled == mesh_pc \in {"skip", "post_skip", "lods", "returned"}
                /\ result.error_message = "unset"

\* where the probe of the settled width reads its two counts
SettledProbePos == loc.core_start + loc.v_off + 8 + loc.sec_count * loc.section_size

\* C22: the section record width parse_staticmesh settles on is 14 or 24,
\* and a width other than the default 14 is one under which the two counts
\* read after section_count records lie wholly inside the buffer and are
\* both zero.
C22_SectionWidth ==
    (op = "parse_staticmesh" /\ WidthSettled) =>
        /\ loc.section_size \in {14, 24}
        /\ loc.section_size # 14 =>
              /\ HasBytes(data, SettledProbePos, 4)
              /\ HasBytes(data, SettledProbePos + 8, 4)
              /\ S32(data, SettledProbePos) = 0
              /\ S32(data, SettledProbePos + 8) = 0

\* what holds: the width is one of the five the probe tries, and a width
\* other than 14 has both counts inside the buffer and zero
C22_WidthOfFive ==
    (op = "parse_staticmesh" /\ WidthSettled) =>
        /\ loc.section_size \in {14, 24, 16, 20, 28}
        /\ loc.section_size # 14 =>
              /\ HasBytes(data, SettledProbePos, 4)
              /\ HasBytes(data, SettledProbePos + 8, 4)
              /\ S32(data, SettledProbePos) = 0
              /\ S32(data, SettledProbePos + 8) = 0

\* a width of 16, 20 or 28 is settled on
C22_OtherWidth ==
    op = "parse_staticmesh" /\ WidthSettled /\ loc.section_size \in {16, 20, 28}

\* the probe raises: the second count lies across the end of the buffer
C22_ProbeRaises ==
    /\ op = "parse_staticmesh" /\ mesh_pc = "raised" /\ loc.core_start >= 0
    /\ HasBytes(data, loc.core_start + 44, 8)
    /\ ~probe_section_size(data,
            loc.core_start + (IF S32(data, loc.core_start + 40) \in v_anchors
                              THEN 40 ELSE 41) + 8,
            S32(data, loc.core_start + (IF S32(data, loc.core_start + 40) \in v_anchors
                                        THEN 40 ELSE 41) + 4)).ok

----------------------------------------------------------------------------
(* The skip pointer and the post-skip header                               *)

\* the post-skip header has been read from the stream
HeaderRead ==
    /\ op = "parse_staticmesh"
    /\ mesh_pc = "lods" \/ (mesh_pc = "returned" /\ result.error_message = "unset")

\* the offset in data of the first byte of post_skip_data
HeaderStart == PyIndex(Len(data), loc.relative_skip)

\* the byte immediately after the skip pointer
AfterSkipPointer == loc.padding_pos + 10

\* C23: with a skip pointer of zero nothing is skipped and the post-skip
\* header (physics reference, auth key, LOD version, LOD count) is read
\* from the byte immediately after the skip pointer; a non-zero skip
\* pointer is converted to skip_pos - serial_offset and the header is read
\* from there.
C23_SkipPointer ==
    HeaderRead =>
        /\ loc.skip_pos = 0 =>
              /\ HeaderStart = AfterSkipPointer
              /\ result.lod_version = S32(data, AfterSkipPointer + 8)
              /\ result.lod_count = S32(data, AfterSkipPointer + 12)
        /\ loc.skip_pos # 0 =>
              /\ HeaderStart = loc.skip_pos - start
              /\ result.lod_version = S32(data, loc.skip_pos - start + 8)
              /\ result.lod_count = S32(data, loc.skip_pos - start + 12)

\* what holds: the header is read from data[relative_skip:] with
\* relative_skip = skip_pos - serial_offset whatever skip_pos is, so for a
\* zero skip pointer from serial_offset bytes before the end of the buffer
\* (from its first byte if serial_offset is 0 or exceeds its length)
C23_HeaderAtRelativeSkip ==
    HeaderRead =>
        /\ loc.relative_skip = loc.skip_pos - start
        /\ result.lod_version = S32(data, HeaderStart + 8)
        /\ result.lod_count = S32(data, HeaderStart + 12)
        /\ loc.skip_pos # 0 => HeaderStart = loc.skip_pos - start
        /\ loc.skip_pos = 0 =>
              /\ HeaderStart = (IF start = 0 THEN 0 ELSE Max(Len(data) - start, 0))
              /\ loc.current_pos = AfterSkipPointer

\* a zero skip pointer whose header is read from before the skip pointer
C23_ZeroSkipReadsElsewhere ==
    HeaderRead /\ loc.skip_pos = 0 /\ HeaderStart < AfterSkipPointer

\* a non-zero skip pointer is followed
C23_NonZeroFollowed ==
    HeaderRead /\ loc.skip_pos # 0 /\ HeaderStart > AfterSkipPointer

----------------------------------------------------------------------------
(* The raw triangles payload                                               *)

\* the step that follows a non-zero skip pointer
SkipFollowed ==
    /\ op = "parse_staticmesh"
    /\ mesh_pc = "skip" /\ mesh_pc' = "post_skip"
    /\ loc.skip_pos # 0

\* the bytes between the cursor just after the skip pointer and the
\* relative skip position
PayloadSize == (loc.skip_pos - start) - AfterSkipPointer

\* C24: when a non-zero skip pointer is followed, the bytes between the
\* cursor just after the skip pointer and the relative skip position are
\* an opaque payload: their count is added to bytes_parsed and recorded as
\* the raw triangles payload size, and they are never recorded as an
\* unknown region.
C24_PayloadCounted ==
    [][SkipFollowed /\ PayloadSize > 0 =>
        /\ result'.bytes_parsed = result.bytes_parsed + PayloadSize
        /\ result'.raw_triangles_payload_size = PayloadSize
        /\ result'.unknown_regions = result.unknown_regions]_vars

\* what holds: following a non-zero skip pointer leaves bytes_parsed and
\* the payload size as they were, and records no unknown region
C24_PayloadUncounted ==
    [][SkipFollowed =>
        /\ result'.bytes_parsed = result.bytes_parsed
        /\ result'.raw_triangles_payload_size = result.raw_triangles_payload_size
        /\ result'.unknown_regions = result.unknown_regions]_vars

\* what holds: no unknown region of a result begins before the relative
\* skip position of a non-zero skip pointer
C24_NeverUnknown ==
    (HeaderRead /\ loc.skip_pos # 0) =>
        \A k \in 1..Len(result.unknown_regions) :
            result.unknown_regions[k].offset_start >= loc.relative_skip

\* a result returned for an export with a payload of 8 bytes that no
\* count holds
C24_PayloadLost ==
    /\ HeaderRead /\ mesh_pc = "returned" /\ loc.skip_pos # 0
    /\ loc.relative_skip - AfterSkipPointer = 8
    /\ result.raw_triangles_payload_size = -1
    /\ result.bytes_parsed + 8 = result.bytes_total + result.bytes_unknown

----------------------------------------------------------------------------
(* scripts/lib/vanguard_mesh_lib.py : FVanguardLODModel.read               *)

\* for i in range(10)
MaxSlots == 10
\* if 0 < v_count < 200000
VertexLimit == 200000
\* if count > 1000000
ArrayLimit == 1000000
\* FVanguardLODVertex.read: four FVector and two floats
VertexBytes == 56

\* reader.read_uint32() at p: struct.error if fewer than four bytes are left
reader_uint32(d, p) ==
    IF p + 4 > Len(d) THEN [ok |-> FALSE, val |-> 0, pos |-> p]
    ELSE [ok |-> TRUE, val |-> U32Capped(SubSeq(d, p + 1, p + 4)), pos |-> p + 4]

\* struct.unpack(f'<{count}H', data_bytes)
unpack_words(d, p, count) == [k \in 1..count |-> d[p + 2 * k - 1] + 256 * d[p + 2 * k]]

\* invalid = [w for w in words if w >= v_count]
invalid_words(words, v_count) == {k \in 1..Len(words) : words[k] >= v_count}

\* words and len(invalid) < max(1, count * 0.05) and count >= 3
\* (count * 0.05 is the exact twentieth for the counts below 60)
is_candidate(words, v_count) ==
    /\ Len(words) > 0
    /\ 20 * Cardinality(invalid_words(words, v_count)) < Max(20, Len(words))
    /\ Len(words) >= 3

\* max(potential_indices, key=len): the first of the longest; [] if none
longest(ps) ==
    IF ps = <<>> THEN <<>>
    ELSE ps[SetMin({k \in 1..Len(ps) : \A j \in 1..Len(ps) : Len(ps[j]) <= Len(ps[k])})]

----------------------------------------------------------------------------
(* Generated LOD models                                                    *)

MaxArrays == 2

\* a count-prefixed array of count words of which the last invalid ones
\* are 65535 and the others 0
ArrayBytes(a) ==
    LE32(a[1]) \o Fill(2 * (a[1] - a[2]), 0) \o Fill(2 * a[2], 255)

\* arrays as <<count, invalid>>: empty, too short, wholly valid, with one
\* or two invalid words around a twentieth of the count
LodArrays ==
    { <<0, 0>>, <<2, 0>>, <<3, 0>>, <<3, 1>>, <<4, 0>>,
      <<20, 0>>, <<20, 1>>, <<20, 2>>, <<21, 1>>, <<21, 2>> }

\* the header of a LOD with v_count vertices, by version
LodHeaderBytes(version, v_count) ==
    IF version = 1 THEN LE32(0) \o LE32(1) \o LE32(v_count)
    ELSE LE32(1) \o LE32(1) \o LE32(v_count) \o LE32(1)

\* header, the vertices read for v_count, the arrays
LodModelBytes(version, v_count, arrays) ==
    LodHeaderBytes(version, v_count)
    \o Fill(IF 0 < v_count /\ v_count < VertexLimit THEN v_count * VertexBytes ELSE 0, 3)
    \o Concat([k \in 1..Len(arrays) |-> ArrayBytes(arrays[k])])

\* a LOD with one vertex and the arrays <<3, 0>> and <<4, 0>>
BaseLod == LodModelBytes(0, 1, << <<3, 0>>, <<4, 0>> >>)

\* LODs of either version without a vertex, with one, with a count at the
\* limit; ten empty arrays before an array; a count above the limit
\* between two arrays; the base LOD cut at every length
LodInputs ==
    {[data |-> LodModelBytes(v, n, as), version |-> v] :
        v \in {0, 1}, n \in {0, 1, VertexLimit}, as \in SeqsUpTo(LodArrays, MaxArrays)}
    \cup {[data |-> LodModelBytes(0, 1, [k \in 1..MaxSlots |-> <<0, 0>>] \o << <<3, 0>> >>),
           version |-> 0]}
    \cup {[data |-> LodModelBytes(0, 1, << <<3, 0>> >>) \o LE32(ArrayLimit + 1)
                    \o ArrayBytes(<<4, 0>>),
           version |-> 0]}
    \cup {[data |-> SubSeq(BaseLod, 1, cut), version |-> 0] : cut \in 0..Len(BaseLod)}

----------------------------------------------------------------------------
(* FVanguardLODModel.read as a state machine: the header, the vertices,    *)
(* one array per step, the choice                                          *)

LodInit ==
    /\ \E m \in LodInputs :
            /\ data = m.data
            /\ lod_model = [NoLodModel EXCEPT !.pc = "header", !.version = m.version]
    /\ pos = 0
    /\ start = 0
    /\ op = "FVanguardLODModel.read"
    /\ ret = NoRet
    /\ NoPackage
    /\ NoProps
    /\ mesh_pc = "idle"
    /\ result = NewResult(0)
    /\ loc = NoLocals
    /\ lods = <<>>
    /\ pipe_pc = "idle"
    /\ static_mesh_exports = <<>>
    /\ exp_i = 0
    /\ meshes = <<>>
    /\ ended = <<>>
    /\ pkg_data = <<>>
    /\ threads = <<>>
    /\ chunk_pc = "idle"
    /\ db_exports = <<>>
    /\ row_i = 0
    /\ attached = <<>>

LodFrame ==
    /\ UNCHANGED <<data, op, start, ret>>
    /\ UNCHANGED pkgVars
    /\ UNCHANGED propVars
    /\ UNCHANGED <<mesh_pc, result, loc, lods>>
    /\ UNCHANGED <<pipe_pc, static_mesh_exports, exp_i, meshes, ended, pkg_data, threads,
                   chunk_pc, db_exports, row_i, attached>>

\* struct.error leaves read
LodRaise == lod_model' = [lod_model EXCEPT !.pc = "raised"] /\ UNCHANGED pos

\* the three (version 1) or four uint32 of the header; v_count is the third
LodHeader ==
    /\ lod_model.pc = "header"
    /\ LET size == IF lod_model.version = 1 THEN 12 ELSE 16
       IN  IF pos + size > Len(data) THEN LodRaise
           ELSE /\ lod_model' = [lod_model EXCEPT
                                    !.pc = "vertices",
                                    !.v_count = reader_uint32(data, pos + 8).val]
                /\ pos' = pos + size
    /\ LodFrame

\* if 0 < v_count < 200000: v_count times FVanguardLODVertex.read
LodVertices ==
    /\ lod_model.pc = "vertices"
    /\ IF 0 < lod_model.v_count /\ lod_model.v_count < VertexLimit
       THEN IF pos + lod_model.v_count * VertexBytes > Len(data) THEN LodRaise
            ELSE /\ lod_model' = [lod_model EXCEPT !.pc = "scan",
                                                   !.vertices = lod_model.v_count]
                 /\ pos' = pos + lod_model.v_count * VertexBytes
       ELSE /\ lod_model' = [lod_model EXCEPT !.pc = "scan"]
            /\ UNCHANGED pos
    /\ LodFrame

\* for i in range(10): if reader.remaining() < 4: break
ScanContinues == lod_model.i < MaxSlots /\ Len(data) - pos >= 4

\* one turn of the scan: an empty array is passed over, a count above the
\* limit or beyond the buffer ends the scan with the cursor put back, else
\* the array is decoded and kept if it is a candidate
LodScanTurn ==
    /\ lod_model.pc = "scan"
    /\ ScanContinues
    /\ LET count == reader_uint32(data, pos).val
           words == unpack_words(data, pos + 4, count)
       IN  IF count = 0
           THEN /\ lod_model' = [lod_model EXCEPT !.i = @ + 1]
                /\ pos' = pos + 4
           ELSE IF count > ArrayLimit \/ Len(data) - (pos + 4) < 2 * count
           THEN /\ lod_model' = [lod_model EXCEPT !.pc = "select"]
                /\ UNCHANGED pos
           ELSE /\ lod_model' = [lod_model EXCEPT
                        !.i = @ + 1,
                        !.arrays = Append(@, words),
                        !.potential_indices =
                            IF is_candidate(words, lod_model.v_count)
                            THEN Append(@, words) ELSE @]
                /\ pos' = pos + 4 + 2 * count
    /\ LodFrame

\* "Choose the largest candidate"; return cls(vertices, indices)
LodSelect ==
    /\ lod_model.pc = "select" \/ (lod_model.pc = "scan" /\ ~ScanContinues)
    /\ lod_model' = [lod_model EXCEPT !.pc = "done",
                                      !.indices = longest(lod_model.potential_indices)]
    /\ UNCHANGED pos
    /\ LodFrame

LodNext ==
    \/ LodHeader
    \/ LodVertices
    \/ LodScanTurn
    \/ LodSelect

LodSpec == LodInit /\ [][LodNext]_vars

----------------------------------------------------------------------------
(* The index buffer of a LOD                                               *)

\* at least 95% of the words are indices into nverts vertices, and there
\* are at least three words
Qualifies(words, nverts) ==
    /\ Len(words) >= 3
    /\ 100 * Cardinality({k \in 1..Len(words) : words[k] < nverts}) >= 95 * Len(words)

\* the arrays read has decoded that qualify
Qualifying(nverts) == SelectSeq(lod_model.arrays, LAMBDA w : Qualifies(w, nverts))

\* C25: when FVanguardLODModel.read returns, its candidates are the decoded
\* arrays of at least three words of which at least 95% are valid indices
\* into the vertices just read, the index list is the longest candidate,
\* and it is empty when no array qualifies.
C25_IndexBuffer ==
    lod_model.pc = "done" =>
        /\ lod_model.potential_indices = Qualifying(lod_model.vertices)
        /\ lod_model.indices = longest(Qualifying(lod_model.vertices))
        /\ Qualifying(lod_model.vertices) = <<>> => lod_model.indices = <<>>

\* what holds: the candidates are the arrays of at least three words with
\* fewer than max(1, count / 20) words at or above v_count, the index
\* list is the first of the longest candidates and is empty without one
C25_StrictRule ==
    lod_model.pc = "done" =>
        /\ lod_model.potential_indices =
                SelectSeq(lod_model.arrays, LAMBDA w : is_candidate(w, lod_model.v_count))
        /\ lod_model.indices = longest(lod_model.potential_indices)
        /\ \A k \in 1..Len(lod_model.potential_indices) :
                Len(lod_model.potential_indices[k]) <= Len(lod_model.indices)
        /\ lod_model.potential_indices = <<>> => lod_model.indices = <<>>

\* an array of 20 words of which 19 are valid is not a candidate
C25_ExactlyNinetyFiveRejected ==
    /\ lod_model.pc = "done" /\ lod_model.vertices = 1
    /\ \E k \in 1..Len(lod_model.arrays) :
            /\ Len(lod_model.arrays[k]) = 20
            /\ Cardinality(invalid_words(lod_model.arrays[k], 1)) = 1
    /\ lod_model.indices = <<>>

\* without a vertex read (v_count at the limit) an array that holds 65535
\* is chosen
C25_IndicesWithoutVertices ==
    /\ lod_model.pc = "done" /\ lod_model.vertices = 0
    /\ Len(lod_model.indices) >= 3
    /\ \E k \in 1..Len(lod_model.indices) : lod_model.indices[k] = 65535

\* the longest of two candidates is chosen
C25_LongestChosen ==
    /\ lod_model.pc = "done" /\ Len(lod_model.potential_indices) = 2
    /\ Len(lod_model.potential_indices[1]) < Len(lod_model.potential_indices[2])
    /\ lod_model.indices = lod_model.potential_indices[2]

----------------------------------------------------------------------------
(* The bytes after the last LOD                                            *)

\* parse_staticmesh ran through the LOD loop and the tail capture
TailCaptured ==
    op = "parse_staticmesh" /\ mesh_pc = "returned" /\ result.error_message = "unset"

\* the offset in data of the cursor after the last LOD
CursorAfterLods == HeaderStart + pos

\* the one region that holds the bytes of data from offset c on
TailRegion(c) ==
    [offset_start |-> c, offset_end |-> Len(data), size |-> Len(data) - c,
     raw_hex |-> hex(SubSeq(data, c + 1, Len(data)))]

\* C26: the bytes that remain after the last LOD are recorded verbatim as
\* one unknown region that spans from the cursor after the last LOD to the
\* end of the buffer, whose hex text is exactly those bytes, and
\* bytes_unknown is the length of that span; with nothing remaining there
\* is no region.
C26_TailVerbatim ==
    TailCaptured =>
        IF CursorAfterLods < Len(data)
        THEN /\ result.unknown_regions = <<TailRegion(CursorAfterLods)>>
             /\ result.bytes_unknown = Len(data) - CursorAfterLods
        ELSE /\ result.unknown_regions = <<>>
             /\ result.bytes_unknown = 0

\* what holds: so it is where the skip pointer is not zero or serial_offset
\* is zero
C26_TailAfterSkip ==
    (TailCaptured /\ (loc.skip_pos # 0 \/ start = 0)) =>
        IF CursorAfterLods < Len(data)
        THEN /\ result.unknown_regions = <<TailRegion(CursorAfterLods)>>
             /\ result.bytes_unknown = Len(data) - CursorAfterLods
        ELSE /\ result.unknown_regions = <<>>
             /\ result.bytes_unknown = 0

\* two trailing bytes after a LOD are recorded as they are
C26_TwoBytesRecorded ==
    /\ TailCaptured /\ loc.skip_pos # 0 /\ Len(lods) >= 1
    /\ Len(result.unknown_regions) = 1
    /\ result.unknown_regions[1].raw_hex = <<48, 50, 48, 50>>
    /\ result.bytes_unknown = 2

\* a region that begins before the buffer and is longer than the buffer
C26_RegionOutsideBuffer ==
    /\ TailCaptured /\ loc.skip_pos = 0
    /\ Len(result.unknown_regions) = 1
    /\ result.unknown_regions[1].offset_start < 0
    /\ result.bytes_unknown > Len(data)
    /\ Len(result.unknown_regions[1].raw_hex) = 2 * Len(data)

----------------------------------------------------------------------------
(* The compact index decoders against each other                           *)

\* the results of the three decoders of reader.py and of the chunk
\* extractor at the offset the last operation started at
DecodedAtStart ==
    {read_compact_index(data, start), read_compact_index_at(data, start),
     extract_chunk_data_read_compact_index(data, start)}

\* the whole number is present at the offset the last operation started at
WholeNumberAtStart == read_compact_index_at(data, start).ok

\* C27: wherever the whole number is present, the decoder inlined in
\* lib/staticmesh_construct.find_none_terminator, BinaryReader's
\* read_compact_index, read_compact_index_at and the chunk extractor's
\* read_compact_index decode the same magnitude and consume the same
\* number of bytes.
C27_DecodersAgree ==
    (op = "inline_compact_index" /\ WholeNumberAtStart) =>
        /\ ret.ok
        /\ \A r \in DecodedAtStart :
                /\ r.ok
                /\ r.val.hi = ret.val.hi /\ r.val.lo = ret.val.lo
                /\ r.pos = ret.end

\* what holds: the three decoders of reader.py and of the chunk extractor
\* agree on the value; the inlined decoder consumes the same bytes and
\* agrees on bits 0..26 and on six of the eight bits byte 4 gives
C27_AgreeBelowBit33 ==
    (op = "inline_compact_index" /\ WholeNumberAtStart) =>
        /\ ret.ok
        /\ \A r \in DecodedAtStart :
                /\ r.ok
                /\ r.val = read_compact_index_at(data, start).val
                /\ r.val.lo = ret.val.lo
                /\ r.val.hi % 64 = ret.val.hi
                /\ r.pos = ret.end

\* a five-byte number whose fifth byte has bit 6 or bit 7 set: the inlined
\* decoder gives another magnitude
C27_FifthByteMasked ==
    /\ op = "inline_compact_index" /\ ret.ok
    /\ ret.end - start = 5
    /\ read_compact_index_at(data, start).val.hi >= 64
    /\ read_compact_index_at(data, start).val.hi # ret.val.hi

\* a number of fewer than five bytes on which the four agree
C27_ShortNumbersAgree ==
    /\ op = "inline_compact_index" /\ ret.ok
    /\ ret.end - start = 3
    /\ \A r \in DecodedAtStart : r.val.lo = ret.val.lo /\ r.val.hi = 0 /\ r.pos = ret.end

----------------------------------------------------------------------------
(* parse_properties at the end of the buffer                               *)

\* parse_properties has ended
PropertiesEnded == op = "parse_properties" /\ prop_pc = "done"

\* C28: parse_properties terminates, returns at most 200 properties and
\* never raises: where the buffer ends inside a record (in the name index,
\* before or in the struct name index, in a size field, in the payload)
\* the decoding ends with the properties decoded so far.
C28_NeverRaises ==
    /\ Len(properties) <= MaxProperties
    /\ PropertiesEnded => stop \in {"end_of_data", "limit", "double_none",
                                    "bad_name_index", "desync"}

\* what holds: at most 200 properties, and every turn that does not end
\* the loop moves the cursor forward inside the buffer, so the loop ends
C28_TurnsAdvance ==
    [][/\ Len(properties') <= MaxProperties
       /\ (prop_pc = "loop" /\ prop_pc' = "loop") => (pos < pos' /\ pos' <= Len(data))]_vars

\* an IndexError leaves parse_properties: the buffer ends inside the name
\* index of a record
C28_RaisedInNameIndex ==
    /\ PropertiesEnded /\ stop = "IndexError"
    /\ prop_start < Len(data) - 1
    /\ ~RecordName(prop_start).ok

\* an IndexError leaves parse_properties: the buffer ends before the struct
\* name index of a Struct record
C28_RaisedInStructName ==
    /\ PropertiesEnded /\ stop = "IndexError"
    /\ RecordHasInfo(prop_start)
    /\ RecordType(prop_start) = 10
    /\ RecordHeaderEnd(prop_start) = Len(data)

\* the turn of the loop that emits a property
PropertyEmitted == prop_pc = "loop" /\ Len(properties') = Len(properties) + 1

\* the property the turn emits
Emitted == properties'[Len(properties')]

\* C29: every property parse_properties emits had its whole payload inside
\* the buffer: its size did not exceed the bytes left after its header, the
\* cursor was advanced by exactly that size and the next record is read
\* from the byte right after the payload; a record whose payload would run
\* past the end of the buffer is not emitted.
C29_PayloadInside ==
    [][PropertyEmitted =>
        /\ pos' <= Len(data)
        /\ pos' - Emitted.size > pos
        /\ Emitted.has_value
        /\ Emitted.value_hex = SubSeq(data, pos' - Emitted.size + 1, pos')]_vars

\* what holds: a property emitted with a value had its payload inside the
\* buffer and the cursor is right after it; one emitted without a value
\* declared a payload that runs past the end, and the cursor stays at the
\* first byte of that payload
C29_ValueOrCursorStays ==
    [][PropertyEmitted =>
        IF Emitted.has_value
        THEN /\ pos' <= Len(data)
             /\ pos' - Emitted.size > pos
             /\ Emitted.value_hex = SubSeq(data, pos' - Emitted.size + 1, pos')
        ELSE /\ pos' + Emitted.size > Len(data)
             /\ pos' > pos
             /\ Emitted.value_hex = <<>>]_vars

\* an Int emitted without a value, and the three bytes of its payload
\* decoded as the next property
C29_PayloadReRead ==
    /\ PropertiesEnded
    /\ data = <<1, 34, 1, 1, 9>> /\ start = 0
    /\ Len(properties) = 2
    /\ properties[1].type = "Int" /\ properties[1].size = 4 /\ ~properties[1].has_value
    /\ properties[2].type = "Byte" /\ properties[2].value_hex = <<9>>

----------------------------------------------------------------------------
(* parse_status of a result that ran to the end                            *)

\* parse_staticmesh returned early with an error_message
Abandoned ==
    op = "parse_staticmesh" /\ mesh_pc = "returned" /\ result.error_message # "unset"

\* C30: a result of parse_staticmesh carries parse_status 'error' only when
\* decoding was abandoned with an error_message: a result that ran through
\* the LOD loop and the tail capture never carries parse_status 'error'.
C30_ErrorMeansAbandoned ==
    TailCaptured => result.parse_status # "error"

\* what holds: an abandoned result carries parse_status 'error', and a
\* result that ran to the end carries it exactly when the first search of
\* Step 2 found no InternalVersion and the anchor search then found one
C30_ErrorFromLegacyScan ==
    /\ Abandoned => result.parse_status = "error"
    /\ TailCaptured =>
            (result.parse_status = "error" <=> ~legacy_core_scan(data, loc.prop_end).found)

\* a result that ran through the LOD loop and the tail capture, with a LOD
\* decoded, carries parse_status 'error' and no error_message
C30_ErrorWithLods ==
    /\ TailCaptured
    /\ result.parse_status = "error"
    /\ Len(lods) >= 1
    /\ result.bytes_unknown = 0

\* an abandoned result carries parse_status 'error' and a message
C30_AbandonedResult ==
    /\ Abandoned
    /\ result.parse_status = "error"
    /\ Len(lods) = 0

\* parse_staticmesh_file reports as failed, with no vertices and no
\* message, an export whose anchor was found and whose LODs were decoded
C30_FailedWithLods ==
    \E i \in 1..Len(ended) :
        /\ ~ended[i].raised
        /\ ended[i].status = "error"
        /\ ended[i].lod_count >= 1
        /\ LET rs == ResultsOf(ended[i].index)
           IN  /\ Len(rs) = 1
               /\ rs[1].parse_status = "error"
               /\ rs[1].error_message = "unset"
               /\ rs[1].vertices = 0

====
